------------------------ MODULE BrowserClient_proof ------------------------
(***************************************************************************)
(* Proofs about BrowserClient, for any employees, tokens and number of     *)
(* clicks.                                                                 *)
(***************************************************************************)
EXTENDS BrowserClient, TLAPS

USE NoneAssumption DEF NoneAssumption
USE BrowserAssumption DEF BrowserAssumption

-----------------------------------------------------------------------------
(* The invariant.                                                          *)

\* What a call holds at each place, and that a session it was told is gone is
\* gone for good.
CallOK(c) ==
    /\ call[c].kind = "none" =>
           call[c].client = "idle" /\ call[c].server = "none"
    /\ call[c].kind = "login" =>
           /\ call[c].server = "ok" <=> call[c].token # None
           /\ call[c].user # None
    /\ call[c].kind \in {"logout", "chat"} => call[c].token # None
    /\ call[c].token # None => issued[call[c].token] # None
    /\ call[c].client = "reading" =>
           call[c].kind = "chat" /\ call[c].server = "ok"
    /\ call[c].server = "pending" => call[c].client \in {"waiting", "lost"}
    /\ call[c].kind = "logout" /\ call[c].server \in {"ok", "refused"} =>
           sessions[call[c].token] = None
    /\ call[c].kind = "chat" /\ call[c].server = "refused" =>
           sessions[call[c].token] = None

CallInv == \A c \in Calls : CallOK(c)

\* The page's token, and every live session, was issued.
TokenInv ==
    /\ view = "chat" <=> token # None
    /\ token # None => issued[token] # None
    /\ \A t \in Tokens : sessions[t] # None => issued[t] # None

\* What is on the page was asked, and answered where it says so.
PageInv ==
    \A i \in 1..Len(page) :
        /\ call[page[i][1]].kind = "chat"
        /\ page[i][2] = "Assistant" => call[page[i][1]].answered

\* Two questions under way at the same time both know of it.
CrossInv ==
    \A c, d \in Calls : c # d /\ Asking(c) /\ Asking(d) => c \in crossed

LastIs(m) == Len(page) > 0 /\ page[Len(page)] = m

\* As long as no handler outlives its login, an open one belongs to the login
\* on the page, and its question is there: at the very end, if it was asked
\* beside no other and has no answer yet.
AloneOK(c) ==
    Open(c) =>
        IF call[c].kind = "login"
        THEN token = None
        ELSE /\ call[c].token = token
             /\ call[c].kind = "chat" =>
                    /\ Shown(c, "You")
                    /\ ~call[c].answered /\ c \notin crossed => LastIs(<<c, "You">>)

AloneInv == alone => \A c \in Calls : AloneOK(c)

Inv ==
    /\ TypeOK
    /\ TokenInv
    /\ CallInv
    /\ PageInv
    /\ CrossInv
    /\ AloneInv
    /\ PageIsOneLogin
    /\ AnswersFollowQuestions
    /\ NoSessionForgotten

-----------------------------------------------------------------------------
(* What a step does to the record of its call.                             *)

Others(c) == \A d \in Calls \ {c} : call'[d] = call[d]

LEMMA SettleShape ==
    ASSUME TypeOK, NEW c \in Calls, NEW x \in {"reading", "over", "lost"},
           Settle(c, x)
    PROVE  /\ call' \in [Calls -> Call]
           /\ Others(c)
           /\ call'[c].client = x
           /\ call'[c].kind = call[c].kind
           /\ call'[c].user = call[c].user
           /\ call'[c].server = call[c].server
           /\ call'[c].token = call[c].token
           /\ call'[c].answered = call[c].answered
<1>1. call[c] \in Call BY DEF TypeOK
<1>2. [call[c] EXCEPT !.client = x] \in Call BY <1>1 DEF Call
<1>3. call' = [call EXCEPT ![c] = [call[c] EXCEPT !.client = x]]
      BY DEF Settle
<1>4. call'[c] = [call[c] EXCEPT !.client = x] BY <1>3 DEF TypeOK
<1> QED BY <1>1, <1>2, <1>3, <1>4 DEF TypeOK, Others, Call

LEMMA AnsweredShape ==
    ASSUME TypeOK, NEW c \in Calls,
           NEW x \in {"idle", "waiting", "reading", "over", "lost"},
           call' = [call EXCEPT ![c].client = x, ![c].answered = TRUE]
    PROVE  /\ call' \in [Calls -> Call]
           /\ Others(c)
           /\ call'[c].client = x
           /\ call'[c].kind = call[c].kind
           /\ call'[c].user = call[c].user
           /\ call'[c].server = call[c].server
           /\ call'[c].token = call[c].token
           /\ call'[c].answered
<1>1. call[c] \in Call BY DEF TypeOK
<1>2. [call[c] EXCEPT !.client = x, !.answered = TRUE] \in Call BY <1>1 DEF Call
<1>3. call' = [call EXCEPT ![c] =
                   [call[c] EXCEPT !.client = x, !.answered = TRUE]]
      BY DEF TypeOK
<1>4. call'[c] = [call[c] EXCEPT !.client = x, !.answered = TRUE]
      BY <1>3 DEF TypeOK
<1> QED BY <1>1, <1>2, <1>3, <1>4 DEF TypeOK, Others, Call

LEMMA TextShape ==
    ASSUME TypeOK, NEW c \in Calls,
           call' = [call EXCEPT ![c].answered = TRUE]
    PROVE  /\ call' \in [Calls -> Call]
           /\ Others(c)
           /\ call'[c].client = call[c].client
           /\ call'[c].kind = call[c].kind
           /\ call'[c].user = call[c].user
           /\ call'[c].server = call[c].server
           /\ call'[c].token = call[c].token
           /\ call'[c].answered
<1>1. call[c] \in Call BY DEF TypeOK
<1>2. [call[c] EXCEPT !.answered = TRUE] \in Call BY <1>1 DEF Call
<1>3. call' = [call EXCEPT ![c] = [call[c] EXCEPT !.answered = TRUE]]
      BY DEF TypeOK
<1>4. call'[c] = [call[c] EXCEPT !.answered = TRUE] BY <1>3 DEF TypeOK
<1> QED BY <1>1, <1>2, <1>3, <1>4 DEF TypeOK, Others, Call

LEMMA ReplyShape ==
    ASSUME TypeOK, NEW c \in Calls, NEW x \in {"ok", "refused"}, Reply(c, x)
    PROVE  /\ call' \in [Calls -> Call]
           /\ Others(c)
           /\ call'[c].server = x
           /\ call'[c].kind = call[c].kind
           /\ call'[c].user = call[c].user
           /\ call'[c].client = call[c].client
           /\ call'[c].token = call[c].token
           /\ call'[c].answered = call[c].answered
<1>1. call[c] \in Call BY DEF TypeOK
<1>2. [call[c] EXCEPT !.server = x] \in Call BY <1>1 DEF Call
<1>3. call' = [call EXCEPT ![c] = [call[c] EXCEPT !.server = x]]
      BY DEF Reply
<1>4. call'[c] = [call[c] EXCEPT !.server = x] BY <1>3 DEF TypeOK
<1> QED BY <1>1, <1>2, <1>3, <1>4 DEF TypeOK, Others, Call

LEMMA LoginShape ==
    ASSUME TypeOK, NEW c \in Calls, NEW t \in Tokens, ServeLogin(c, t)
    PROVE  /\ call' \in [Calls -> Call]
           /\ Others(c)
           /\ call'[c].server = "ok"
           /\ call'[c].token = t
           /\ call'[c].kind = call[c].kind
           /\ call'[c].user = call[c].user
           /\ call'[c].client = call[c].client
           /\ call'[c].answered = call[c].answered
<1>1. call[c] \in Call BY DEF TypeOK
<1>2. [call[c] EXCEPT !.server = "ok", !.token = t] \in Call BY <1>1 DEF Call
<1>3. call' = [call EXCEPT ![c] = [call[c] EXCEPT !.server = "ok", !.token = t]]
      BY DEF ServeLogin, TypeOK
<1>4. call'[c] = [call[c] EXCEPT !.server = "ok", !.token = t]
      BY <1>3 DEF TypeOK
<1> QED BY <1>1, <1>2, <1>3, <1>4 DEF TypeOK, Others, Call

LEMMA SendShape ==
    ASSUME TypeOK, NEW c \in Calls, NEW kind \in Kinds,
           NEW user \in Employees \union {None},
           NEW sent \in Tokens \union {None}, Send(c, kind, user, sent)
    PROVE  /\ call' \in [Calls -> Call]
           /\ Others(c)
           /\ call[c].kind = "none"
           /\ call'[c].kind = kind
           /\ call'[c].user = user
           /\ call'[c].client = "waiting"
           /\ call'[c].server = "pending"
           /\ call'[c].token = sent
           /\ ~call'[c].answered
<1> DEFINE new == [kind |-> kind, client |-> "waiting", server |-> "pending",
                   user |-> user, token |-> sent, answered |-> FALSE]
<1>1. new \in Call BY DEF Call
<1>2. call' = [call EXCEPT ![c] = new] BY DEF Send
<1>3. call'[c] = new BY <1>2 DEF TypeOK
<1> QED BY <1>1, <1>2, <1>3 DEF TypeOK, Others, Send

LEMMA RestartShape ==
    ASSUME TypeOK, Restart
    PROVE  /\ call' \in [Calls -> Call]
           /\ \A c \in Calls :
                  /\ call'[c].kind = call[c].kind
                  /\ call'[c].user = call[c].user
                  /\ call'[c].client = call[c].client
                  /\ call'[c].token = call[c].token
                  /\ call'[c].answered = call[c].answered
                  /\ \/ call'[c].server = call[c].server
                     \/ /\ call[c].server = "pending"
                        /\ call'[c].server = "dropped"
<1> SUFFICES ASSUME NEW c \in Calls
             PROVE  /\ call'[c] \in Call
                    /\ call'[c].kind = call[c].kind
                    /\ call'[c].user = call[c].user
                    /\ call'[c].client = call[c].client
                    /\ call'[c].token = call[c].token
                    /\ call'[c].answered = call[c].answered
                  /\ call'[c].answered = call[c].answered
                    /\ \/ call'[c].server = call[c].server
                       \/ /\ call[c].server = "pending"
                          /\ call'[c].server = "dropped"
    BY DEF Restart
<1>1. call[c] \in Call BY DEF TypeOK
<1>2. [call[c] EXCEPT !.server = "dropped"] \in Call BY <1>1 DEF Call
<1>3. call'[c] = IF call[c].server = "pending"
                 THEN [call[c] EXCEPT !.server = "dropped"]
                 ELSE call[c]
      BY DEF Restart
<1> QED BY <1>1, <1>2, <1>3 DEF Call

-----------------------------------------------------------------------------
(* What a message put on the page does to it.                              *)

LEMMA Appended ==
    ASSUME TypeOK, NEW c \in Calls, NEW role \in Roles, AddMessage(c, role)
    PROVE  /\ page' \in Seq(Calls \X Roles)
           /\ Len(page) \in Nat
           /\ Len(page') = Len(page) + 1
           /\ \A i \in 1..Len(page) :
                  /\ page'[i] = page[i]
                  /\ page[i] \in Calls \X Roles
                  /\ i \in 1..Len(page')
           /\ page'[Len(page')] = <<c, role>>
           /\ \A i \in 1..Len(page') : i \in 1..Len(page) \/ i = Len(page')
<1>1. <<c, role>> \in Calls \X Roles OBVIOUS
<1> QED BY <1>1 DEF TypeOK, AddMessage

\* A message that is not there yet keeps the page free of duplicates, and what
\* was shown stays where it was.
LEMMA NoDuplicate ==
    ASSUME TypeOK, AnswersFollowQuestions,
           NEW c \in Calls, NEW role \in Roles, AddMessage(c, role),
           ~Shown(c, role)
    PROVE  \A i, j \in 1..Len(page') : page'[i] = page'[j] => i = j
<1>1. \A i, j \in 1..Len(page) : page[i] = page[j] => i = j
      BY DEF AnswersFollowQuestions
<1>2. \A i \in 1..Len(page) : page[i] # <<c, role>> BY DEF Shown
<1> QED BY <1>1, <1>2, Appended

LEMMA StillShown ==
    ASSUME TypeOK, NEW c \in Calls, NEW role \in Roles, AddMessage(c, role)
    PROVE  /\ Shown(c, role)'
           /\ \A d \in Calls : Shown(d, "You") => Shown(d, "You")'
<1>1. Len(page') \in 1..Len(page') BY Appended
<1> QED BY <1>1, Appended DEF Shown

-----------------------------------------------------------------------------
(* Every step preserves the invariant.                                     *)

LEMMA InitInv == Init => Inv
<1> SUFFICES ASSUME Init PROVE Inv OBVIOUS
<1>1. NoCall \in Call BY DEF NoCall, Call, Kinds
<1>2. TypeOK
      BY <1>1 DEF Init, SessionInit, NoSessions, SessionTypeOK, TypeOK
<1>3. CallInv BY DEF Init, NoCall, CallInv, CallOK
<1>4. TokenInv BY DEF Init, SessionInit, NoSessions, TokenInv
<1>5. AloneInv BY DEF Init, NoCall, AloneInv, AloneOK, Open
<1>6. PageInv /\ PageIsOneLogin /\ AnswersFollowQuestions
      BY DEF Init, PageInv, PageIsOneLogin, AnswersFollowQuestions
<1>7. CrossInv BY DEF Init, NoCall, CrossInv, Asking
<1>8. NoSessionForgotten
      BY DEF Init, SessionInit, NoSessions, NoSessionForgotten
<1> QED BY <1>1, <1>2, <1>3, <1>4, <1>5, <1>6, <1>7, <1>8 DEF Inv

\* The steps at the server's end leave everything about the page as it is.
LEMMA PageUntouched ==
    ASSUME Inv, UNCHANGED <<pageVars, ghostVars>>,
           \A d \in Calls :
               /\ call'[d].kind = call[d].kind
               /\ call'[d].client = call[d].client
               /\ call'[d].answered = call[d].answered
               /\ call[d].kind # "login" => call'[d].token = call[d].token
    PROVE  /\ PageInv'
           /\ CrossInv'
           /\ AloneInv'
           /\ PageIsOneLogin'
           /\ AnswersFollowQuestions'
<1>1. \A i \in 1..Len(page) : page[i] \in Calls \X Roles BY DEF Inv, TypeOK
<1>2. PageInv' BY <1>1 DEF Inv, PageInv, pageVars
<1>3. CrossInv' BY DEF Inv, CrossInv, Asking, Open, ghostVars
<1>4. AloneInv'
  <2>1. \A d \in Calls : AloneOK(d) => AloneOK(d)'
        BY DEF AloneOK, Open, Shown, LastIs, pageVars, ghostVars
  <2> QED BY <2>1 DEF Inv, AloneInv, ghostVars
<1>5. PageIsOneLogin'
      BY <1>1 DEF Inv, PageInv, PageIsOneLogin, pageVars, ghostVars
<1>6. AnswersFollowQuestions'
      BY DEF Inv, AnswersFollowQuestions, pageVars, ghostVars
<1> QED BY <1>2, <1>3, <1>4, <1>5, <1>6

\* The steps that leave the sessions alone and move one handler from waiting
\* or reading to its next place, without touching the page's token.
LEMMA QuietStep ==
    ASSUME Inv, NEW c \in Calls, call' \in [Calls -> Call], Others(c),
           call'[c].kind = call[c].kind,
           call'[c].user = call[c].user,
           call'[c].server = call[c].server,
           call'[c].token = call[c].token,
           Open(c),
           \/ call'[c].client = call[c].client
           \/ call'[c].client = "lost"
           \/ /\ call'[c].client \in {"reading", "over"}
              /\ call[c].kind # "none"
              /\ call[c].server \notin {"none", "pending"}
              /\ call'[c].client = "reading" =>
                     call[c].kind = "chat" /\ call[c].server = "ok"
              /\ call[c].kind = "login" => call[c].server = "refused",
           UNCHANGED <<sessionVars, token, view, ghostVars>>,
           \/ UNCHANGED page /\ (call[c].answered => call'[c].answered)
           \/ /\ call[c].kind = "chat" /\ ~call[c].answered
              /\ AddMessage(c, "Assistant") /\ call'[c].answered
    PROVE  Inv'
<1>t. TypeOK BY DEF Inv
<1>r. {"You", "Assistant"} = Roles BY DEF Roles
<1>o. \A d \in Calls : /\ call'[d].kind = call[d].kind
                       /\ call'[d].token = call[d].token
                       /\ Open(d)' => Open(d)
                       /\ call[d].answered => call'[d].answered
      BY DEF Others, Open
<1>p. \A i \in 1..Len(page) : page[i] \in Calls \X Roles BY <1>t DEF TypeOK
<1>1. TypeOK'
  <2>1. page' \in Seq(Calls \X Roles) BY <1>t, <1>r, Appended DEF TypeOK
  <2> QED BY <2>1 DEF Inv, TypeOK, SessionTypeOK, sessionVars, ghostVars
<1>2. TokenInv' BY DEF Inv, TokenInv, sessionVars
<1>3. CallInv'
  <2> SUFFICES ASSUME NEW d \in Calls PROVE CallOK(d)' BY DEF CallInv
  <2>1. CallOK(d) BY DEF Inv, CallInv
  <2>2. CASE d # c BY <2>1, <2>2 DEF CallOK, Others, sessionVars
  <2>3. CASE d = c
        BY <2>1, <2>3 DEF CallOK, Open, sessionVars
  <2> QED BY <2>2, <2>3
<1>4. PageInv'
  <2>1. CASE UNCHANGED page
        BY <1>o, <1>p, <2>1 DEF Inv, PageInv
  <2>2. CASE AddMessage(c, "Assistant") /\ call'[c].answered /\ call[c].kind = "chat"
    <3> SUFFICES ASSUME NEW i \in 1..Len(page')
                 PROVE  /\ call'[page'[i][1]].kind = "chat"
                        /\ page'[i][2] = "Assistant" => call'[page'[i][1]].answered
        BY DEF PageInv
    <3>1. CASE i \in 1..Len(page)
          BY <1>o, <1>p, <1>t, <1>r, <2>2, <3>1, Appended DEF Inv, PageInv
    <3>2. CASE i = Len(page')
          BY <1>o, <1>t, <1>r, <2>2, <3>2, Appended
    <3> QED BY <1>t, <1>r, <2>2, <3>1, <3>2, Appended
  <2> QED BY <2>1, <2>2
<1>5. CrossInv'
      BY <1>o DEF Inv, CrossInv, Asking, ghostVars
<1>6. AloneInv'
  <2> SUFFICES ASSUME alone, NEW d \in Calls, Open(d)' PROVE AloneOK(d)'
      BY DEF AloneInv, AloneOK, ghostVars
  <2>1. AloneOK(d) /\ Open(d) BY <1>o DEF Inv, AloneInv
  <2>2. CASE UNCHANGED page
        BY <1>o, <2>1, <2>2 DEF AloneOK, Shown, LastIs, ghostVars
  <2>3. CASE /\ call[c].kind = "chat" /\ ~call[c].answered
             /\ AddMessage(c, "Assistant") /\ call'[c].answered
    <3>1. Shown(d, "You") => Shown(d, "You")'
          BY <1>t, <1>r, <2>3, StillShown
    <3>2. d # c /\ call[d].kind = "chat" => d \in crossed
          BY <2>1, <2>3 DEF Inv, CrossInv, Asking
    <3> QED BY <1>o, <2>1, <2>3, <3>1, <3>2 DEF AloneOK, ghostVars
  <2> QED BY <2>2, <2>3
<1>7. PageIsOneLogin'
  <2> SUFFICES ASSUME alone, NEW i \in 1..Len(page')
               PROVE  call'[page'[i][1]].token = token
      BY DEF PageIsOneLogin, ghostVars
  <2>1. CASE UNCHANGED page
        BY <1>o, <1>p, <2>1 DEF Inv, PageIsOneLogin
  <2>2. CASE call[c].kind = "chat" /\ AddMessage(c, "Assistant")
    <3>1. call[c].token = token BY <2>2 DEF Inv, AloneInv, AloneOK
    <3>2. CASE i \in 1..Len(page)
          BY <1>o, <1>p, <1>t, <1>r, <2>2, <3>2, Appended DEF Inv, PageIsOneLogin
    <3>3. CASE i = Len(page')
          BY <1>o, <1>t, <1>r, <2>2, <3>1, <3>3, Appended
    <3> QED BY <1>t, <1>r, <2>2, <3>2, <3>3, Appended
  <2> QED BY <2>1, <2>2
<1>8. AnswersFollowQuestions'
  <2>1. CASE UNCHANGED page
        BY <2>1 DEF Inv, AnswersFollowQuestions, ghostVars
  <2>2. CASE /\ call[c].kind = "chat" /\ ~call[c].answered
             /\ AddMessage(c, "Assistant")
    <3>1. ~Shown(c, "Assistant")
      <4> SUFFICES ASSUME NEW i \in 1..Len(page), page[i] = <<c, "Assistant">>
                   PROVE  FALSE
          BY DEF Shown
      <4> QED BY <2>2 DEF Inv, PageInv
    <3>2. \A i, j \in 1..Len(page') : page'[i] = page'[j] => i = j
          BY <1>t, <1>r, <2>2, <3>1, NoDuplicate DEF Inv
    <3>3. ASSUME alone, NEW i \in 1..Len(page'), page'[i][2] = "Assistant"
          PROVE  \E j \in 1..(i - 1) :
                     /\ page'[j] = <<page'[i][1], "You">>
                     /\ page'[i][1] \notin crossed => j = i - 1
      <4>1. CASE i \in 1..Len(page)
        <5>1. page'[i] = page[i] BY <1>t, <1>r, <2>2, <4>1, Appended
        <5>2. PICK j \in 1..(i - 1) :
                  /\ page[j] = <<page[i][1], "You">>
                  /\ page[i][1] \notin crossed => j = i - 1
              BY <3>3, <4>1, <5>1 DEF Inv, AnswersFollowQuestions
        <5>3. j \in 1..Len(page) BY <4>1, <1>t DEF TypeOK
        <5>4. page'[j] = page[j] BY <1>t, <1>r, <2>2, <5>3, Appended
        <5> QED BY <5>1, <5>2, <5>4
      <4>2. CASE i = Len(page')
        <5>1. /\ page'[i] = <<c, "Assistant">>
              /\ Len(page) \in Nat
              /\ i - 1 = Len(page)
              /\ \A j \in 1..Len(page) : page'[j] = page[j]
              BY <1>t, <1>r, <2>2, <4>2, Appended
        <5>2. /\ Shown(c, "You")
              /\ c \notin crossed => LastIs(<<c, "You">>)
              BY <2>2, <3>3 DEF Inv, AloneInv, AloneOK
        <5>3. CASE c \in crossed
          <6>1. PICK j \in 1..Len(page) : page[j] = <<c, "You">>
                BY <5>2 DEF Shown
          <6> QED BY <5>1, <5>3, <6>1
        <5>4. CASE c \notin crossed
          <6>1. Len(page) \in 1..Len(page) /\ page[Len(page)] = <<c, "You">>
                BY <5>1, <5>2, <5>4 DEF LastIs
          <6> QED BY <5>1, <6>1
        <5> QED BY <5>3, <5>4
      <4> QED BY <1>t, <1>r, <2>2, <4>1, <4>2, Appended
    <3> QED BY <3>2, <3>3 DEF AnswersFollowQuestions, ghostVars
  <2> QED BY <2>1, <2>2
<1>9. NoSessionForgotten'
  <2> SUFFICES ASSUME alone, NEW t \in Tokens, sessions[t] # None, token # t
               PROVE  \E d \in Calls : /\ call'[d].kind = "login"
                                       /\ call'[d].token = t
                                       /\ call'[d].client # "over"
      BY DEF NoSessionForgotten, sessionVars, ghostVars
  <2>1. PICK d \in Calls : /\ call[d].kind = "login"
                           /\ call[d].token = t
                           /\ call[d].client # "over"
        BY DEF Inv, NoSessionForgotten
  <2>2. CallOK(d) BY DEF Inv, CallInv
  <2>3. d = c => call'[c].client # "over"
        BY <2>1, <2>2 DEF CallOK
  <2> QED BY <2>1, <2>3 DEF Others
<1> QED BY <1>1, <1>2, <1>3, <1>4, <1>5, <1>6, <1>7, <1>8, <1>9 DEF Inv

\* A new call, under the page's token or, for a login, under none.
LEMMA SendStep ==
    ASSUME Inv, NEW c \in Calls, NEW kind \in Kinds,
           NEW user \in Employees \union {None},
           NEW sent \in Tokens \union {None}, Send(c, kind, user, sent),
           UNCHANGED <<sessionVars, token, view, alone>>,
           sent = token,
           kind = "login" <=> token = None,
           kind = "login" => user # None,
           IF kind = "chat"
           THEN AddMessage(c, "You") /\ Cross(c)
           ELSE UNCHANGED <<page, crossed>>
    PROVE  Inv'
<1>0. /\ call' \in [Calls -> Call]
      /\ Others(c)
      /\ call[c].kind = "none"
      /\ call'[c].kind = kind
      /\ call'[c].user = user
      /\ call'[c].client = "waiting"
      /\ call'[c].server = "pending"
      /\ call'[c].token = sent
      /\ ~call'[c].answered
      BY SendShape DEF Inv
<1>t. TypeOK BY DEF Inv
<1>r. {"You", "Assistant"} = Roles BY DEF Roles
<1>p. \A i \in 1..Len(page) : /\ page[i] \in Calls \X Roles
                              /\ page[i][1] \in Calls \ {c}
      BY <1>0 DEF Inv, PageInv, TypeOK
<1>x. crossed \subseteq crossed' BY DEF Cross
<1>1. TypeOK'
  <2>1. page' \in Seq(Calls \X Roles) BY <1>t, <1>r, Appended DEF TypeOK
  <2>2. crossed' \subseteq Calls BY <1>t DEF TypeOK, Cross
  <2> QED BY <1>0, <2>1, <2>2 DEF Inv, TypeOK, SessionTypeOK, sessionVars
<1>2. TokenInv' BY DEF Inv, TokenInv, sessionVars
<1>3. CallInv'
  <2> SUFFICES ASSUME NEW d \in Calls PROVE CallOK(d)' BY DEF CallInv
  <2>1. CallOK(d) BY DEF Inv, CallInv
  <2>2. CASE d # c BY <1>0, <2>1, <2>2 DEF CallOK, Others, sessionVars
  <2>3. CASE d = c
        BY <1>0, <2>3 DEF CallOK, Inv, TokenInv, sessionVars, Kinds
  <2> QED BY <2>2, <2>3
<1>a. kind = "chat" =>
          /\ Len(page) \in Nat
          /\ Len(page') = Len(page) + 1
          /\ page'[Len(page')] = <<c, "You">>
          /\ \A i \in 1..Len(page') : i \in 1..Len(page) \/ i = Len(page')
      BY <1>t, <1>r, Appended
<1>b. /\ \A i \in 1..Len(page) : page'[i] = page[i]
      /\ kind # "chat" => page' = page
      BY <1>t, <1>r, Appended
<1>4. PageInv'
  <2> SUFFICES ASSUME NEW i \in 1..Len(page')
               PROVE  /\ call'[page'[i][1]].kind = "chat"
                      /\ page'[i][2] = "Assistant" => call'[page'[i][1]].answered
      BY DEF PageInv
  <2>1. CASE i \in 1..Len(page)
        BY <1>0, <1>p, <1>b, <2>1 DEF Inv, PageInv, Others
  <2>2. CASE i \notin 1..Len(page)
        BY <1>0, <1>a, <1>b, <2>2
  <2> QED BY <2>1, <2>2
<1>5. CrossInv'
  <2> SUFFICES ASSUME NEW d \in Calls, NEW e \in Calls, d # e,
                      Asking(d)', Asking(e)'
               PROVE  d \in crossed'
      BY DEF CrossInv
  <2>1. \A x \in Calls \ {c} : Asking(x)' => Asking(x)
        BY <1>0 DEF Asking, Open, Others
  <2>2. CASE d # c /\ e # c BY <1>x, <2>1, <2>2 DEF Inv, CrossInv
  <2>3. CASE kind = "chat" /\ (d = c \/ e = c) BY <2>1, <2>3 DEF Cross
  <2>4. CASE kind # "chat" BY <1>0, <2>2, <2>4 DEF Asking
  <2> QED BY <2>2, <2>3, <2>4
<1>6. AloneInv'
  <2>1. ASSUME alone, NEW d \in Calls \ {c} PROVE AloneOK(d)'
    <3>1. AloneOK(d) /\ call'[d] = call[d] BY <1>0, <2>1 DEF Inv, AloneInv, Others
    <3>2. Shown(d, "You") => Shown(d, "You")' BY <1>t, <1>r, StillShown DEF Shown
    <3>3. kind = "chat" /\ Open(d) /\ call[d].kind = "chat" => d \in crossed'
          BY DEF Cross, Asking
    <3> QED BY <1>x, <1>b, <3>1, <3>2, <3>3 DEF AloneOK, Open, LastIs
  <2>2. AloneOK(c)'
    <3>1. CASE kind = "chat"
          BY <1>0, <1>t, <1>r, <1>a, <3>1, StillShown DEF AloneOK, LastIs
    <3>2. CASE kind # "chat" BY <1>0, <3>2 DEF AloneOK
    <3> QED BY <3>1, <3>2
  <2> QED BY <2>1, <2>2 DEF AloneInv
<1>7. PageIsOneLogin'
  <2> SUFFICES ASSUME alone, NEW i \in 1..Len(page')
               PROVE  call'[page'[i][1]].token = token
      BY DEF PageIsOneLogin
  <2>1. CASE i \in 1..Len(page)
        BY <1>0, <1>p, <1>b, <2>1 DEF Inv, PageIsOneLogin, Others
  <2>2. CASE i \notin 1..Len(page)
        BY <1>0, <1>a, <1>b, <2>2
  <2> QED BY <2>1, <2>2
<1>8. AnswersFollowQuestions'
  <2>1. ~Shown(c, "You") BY <1>p DEF Shown
  <2>2. \A i, j \in 1..Len(page') : page'[i] = page'[j] => i = j
        BY <1>t, <1>r, <2>1, NoDuplicate DEF Inv, AnswersFollowQuestions
  <2>3. ASSUME alone, NEW i \in 1..Len(page'), page'[i][2] = "Assistant"
        PROVE  \E j \in 1..(i - 1) :
                   /\ page'[j] = <<page'[i][1], "You">>
                   /\ page'[i][1] \notin crossed' => j = i - 1
    <3>1. i \in 1..Len(page) /\ page'[i] = page[i] BY <1>a, <1>b, <2>3
    <3>2. PICK j \in 1..(i - 1) :
              /\ page[j] = <<page[i][1], "You">>
              /\ page[i][1] \notin crossed => j = i - 1
          BY <2>3, <3>1 DEF Inv, AnswersFollowQuestions
    <3>3. j \in 1..Len(page) BY <3>1, <1>t DEF TypeOK
    <3> QED BY <1>b, <1>x, <3>1, <3>2, <3>3
  <2> QED BY <2>2, <2>3 DEF AnswersFollowQuestions
<1>9. NoSessionForgotten'
  <2> SUFFICES ASSUME alone, NEW t \in Tokens, sessions[t] # None, token # t
               PROVE  \E d \in Calls : /\ call'[d].kind = "login"
                                       /\ call'[d].token = t
                                       /\ call'[d].client # "over"
      BY DEF NoSessionForgotten, sessionVars
  <2> QED BY <1>0 DEF Inv, NoSessionForgotten, Others
<1> QED BY <1>1, <1>2, <1>3, <1>4, <1>5, <1>6, <1>7, <1>8, <1>9 DEF Inv

\* The page changes hands: handler c ends, and what it leaves is a page with
\* no token and no messages, or one logged in with the token it waited for.
LEMMA HandOver ==
    ASSUME Inv, NEW c \in Calls, Open(c), Settle(c, "over"), ChangeHands(c),
           UNCHANGED sessionVars,
           \/ /\ ShowLogin
              /\ call[c].kind \in {"logout", "chat"}
              /\ sessions[call[c].token] = None
           \/ /\ call[c].kind = "login" /\ call[c].server = "ok"
              /\ token' = call[c].token /\ view' = "chat" /\ UNCHANGED page,
           call[c].server \notin {"none", "pending"}
    PROVE  Inv'
<1>0. /\ call' \in [Calls -> Call]
      /\ Others(c)
      /\ call'[c].client = "over"
      /\ call'[c].kind = call[c].kind
      /\ call'[c].user = call[c].user
      /\ call'[c].server = call[c].server
      /\ call'[c].token = call[c].token
      /\ call'[c].answered = call[c].answered
      BY SettleShape DEF Inv
<1>a. CallOK(c) BY DEF Inv, CallInv
<1>b. call[c].token \in Tokens \union {None} BY DEF Inv, TypeOK, Call
<1>c. alone' => \A d \in Calls : ~Open(d)'
      BY <1>0 DEF ChangeHands, Open, Others
<1>d. alone' => alone BY DEF ChangeHands
<1>e. \A d \in Calls : /\ call'[d].kind = call[d].kind
                       /\ call'[d].token = call[d].token
                       /\ call'[d].answered = call[d].answered
                       /\ Open(d)' => Open(d)
      BY <1>0 DEF Others, Open
<1>f. page' = page \/ page' = << >> BY DEF ShowLogin
<1>1. TypeOK'
  <2>1. SessionTypeOK' BY DEF Inv, TypeOK, SessionTypeOK, sessionVars
  <2>2. alone' \in BOOLEAN /\ crossed' \subseteq Calls
        BY DEF ChangeHands, Inv, TypeOK
  <2>3. << >> \in Seq(Calls \X Roles) OBVIOUS
  <2>4. page' \in Seq(Calls \X Roles) BY <1>f, <2>3 DEF Inv, TypeOK
  <2> QED BY <1>0, <1>b, <2>1, <2>2, <2>4 DEF Inv, TypeOK, ShowLogin
<1>2. TokenInv'
      BY <1>a DEF Inv, TokenInv, sessionVars, ShowLogin, CallOK
<1>3. CallInv'
  <2> SUFFICES ASSUME NEW d \in Calls PROVE CallOK(d)' BY DEF CallInv
  <2>1. CallOK(d) BY DEF Inv, CallInv
  <2>2. CASE d # c BY <1>0, <2>1, <2>2 DEF CallOK, Others, sessionVars
  <2>3. CASE d = c BY <1>0, <2>1, <2>3 DEF CallOK, Open, sessionVars
  <2> QED BY <2>2, <2>3
<1>4. PageInv'
  <2>1. \A i \in 1..Len(page) : page[i] \in Calls \X Roles BY DEF Inv, TypeOK
  <2> QED BY <1>e, <1>f, <2>1 DEF Inv, PageInv
<1>5. CrossInv' BY <1>e DEF Inv, CrossInv, Asking, ChangeHands
<1>6. AloneInv' BY <1>c DEF AloneInv, AloneOK, Open
<1>7. PageIsOneLogin'
  <2> SUFFICES ASSUME alone' PROVE page' = << >> BY DEF PageIsOneLogin
  <2>1. CASE call[c].kind = "login"
    <3>1. token = None BY <1>d, <2>1 DEF Inv, AloneInv, AloneOK
    <3>2. \A i \in 1..Len(page) : FALSE
      <4> SUFFICES ASSUME NEW i \in 1..Len(page) PROVE FALSE OBVIOUS
      <4>1. page[i][1] \in Calls BY DEF Inv, TypeOK
      <4>2. CallOK(page[i][1]) BY <4>1 DEF Inv, CallInv
      <4> QED BY <1>d, <3>1, <4>2
              DEF Inv, PageInv, PageIsOneLogin, CallOK
    <3>3. page = << >> BY <3>2 DEF Inv, TypeOK
    <3> QED BY <2>1, <3>3
  <2> QED BY <2>1 DEF ShowLogin
<1>8. AnswersFollowQuestions'
  <2>1. CASE page' = page
        BY <1>d, <2>1 DEF Inv, AnswersFollowQuestions, ChangeHands
  <2>2. CASE page' = << >>
    <3>1. \A i \in 1..Len(page') : FALSE BY <2>2
    <3> QED BY <3>1 DEF AnswersFollowQuestions
  <2> QED BY <1>f, <2>1, <2>2
<1>9. NoSessionForgotten'
  <2> SUFFICES ASSUME alone', NEW t \in Tokens, sessions[t] # None, token' # t
               PROVE  \E d \in Calls : /\ call'[d].kind = "login"
                                       /\ call'[d].token = t
                                       /\ call'[d].client # "over"
      BY DEF NoSessionForgotten, sessionVars
  <2>1. token # t
        BY <1>d DEF Inv, AloneInv, AloneOK
  <2>2. PICK d \in Calls : /\ call[d].kind = "login"
                           /\ call[d].token = t
                           /\ call[d].client # "over"
        BY <1>d, <2>1 DEF Inv, NoSessionForgotten
  <2>3. d # c BY <2>2
  <2> QED BY <1>0, <2>2, <2>3 DEF Others
<1> QED BY <1>1, <1>2, <1>3, <1>4, <1>5, <1>6, <1>7, <1>8, <1>9 DEF Inv

\* The server answers call c, and may end its session.
LEMMA ReplyStep ==
    ASSUME Inv, NEW c \in Calls, NEW x \in {"ok", "refused"}, Reply(c, x),
           call[c].server = "pending",
           \/ /\ call[c].kind = "login" /\ x = "refused"
              /\ UNCHANGED sessionVars
           \/ /\ call[c].kind = "chat"
              /\ x = "refused" => sessions[call[c].token] = None
              /\ UNCHANGED sessionVars
           \/ /\ call[c].kind = "logout"
              /\ sessions[call[c].token] = None
              /\ UNCHANGED sessionVars
           \/ /\ call[c].kind = "logout"
              /\ DeleteSession(call[c].token),
           UNCHANGED <<pageVars, ghostVars>>
    PROVE  Inv'
<1>0. /\ call' \in [Calls -> Call]
      /\ Others(c)
      /\ call'[c].server = x
      /\ call'[c].kind = call[c].kind
      /\ call'[c].user = call[c].user
      /\ call'[c].client = call[c].client
      /\ call'[c].token = call[c].token
      /\ call'[c].answered = call[c].answered
      BY ReplyShape DEF Inv
<1>a. CallOK(c) /\ call[c].token \in Tokens \union {None}
      BY DEF Inv, CallInv, TypeOK, Call
<1>b. /\ sessions' \in [Tokens -> Employees \union {None}]
      /\ UNCHANGED issued
      /\ \A t \in Tokens : sessions'[t] \in {sessions[t], None}
      /\ call[c].kind = "logout" => sessions'[call[c].token] = None
      BY <1>a DEF Inv, TypeOK, SessionTypeOK, DeleteSession, sessionVars, CallOK
<1>1. TypeOK' BY <1>0, <1>b DEF Inv, TypeOK, SessionTypeOK, pageVars, ghostVars
<1>2. TokenInv' BY <1>b DEF Inv, TokenInv, pageVars
<1>3. CallInv'
  <2> SUFFICES ASSUME NEW d \in Calls PROVE CallOK(d)' BY DEF CallInv
  <2>1. CallOK(d) /\ call[d].token \in Tokens \union {None}
        BY DEF Inv, CallInv, TypeOK, Call
  <2>2. CASE d # c BY <1>0, <1>b, <2>1, <2>2 DEF CallOK, Others
  <2>3. CASE d = c BY <1>0, <1>b, <2>1, <2>3 DEF CallOK, sessionVars
  <2> QED BY <2>2, <2>3
<1>4. /\ PageInv'
      /\ CrossInv'
      /\ AloneInv'
      /\ PageIsOneLogin'
      /\ AnswersFollowQuestions'
      BY <1>0, PageUntouched DEF Others
<1>5. NoSessionForgotten'
      BY <1>0, <1>b DEF Inv, NoSessionForgotten, Others, pageVars, ghostVars
<1> QED BY <1>1, <1>2, <1>3, <1>4, <1>5 DEF Inv

LEMMA LoginStep ==
    ASSUME Inv, NEW c \in Calls, NEW t \in Tokens, ServeLogin(c, t)
    PROVE  Inv'
<1>0. /\ call' \in [Calls -> Call]
      /\ Others(c)
      /\ call'[c].server = "ok"
      /\ call'[c].token = t
      /\ call'[c].kind = call[c].kind
      /\ call'[c].user = call[c].user
      /\ call'[c].client = call[c].client
      /\ call'[c].answered = call[c].answered
      BY LoginShape DEF Inv
<1>a. CallOK(c) /\ call[c].kind = "login" /\ call[c].server = "pending"
      BY DEF Inv, CallInv, ServeLogin, Pending
<1>b. call[c].user \in Employees \union {None} BY DEF Inv, TypeOK, Call
<1>c. /\ sessions' = [sessions EXCEPT ![t] = call[c].user]
      /\ issued' = [issued EXCEPT ![t] = call[c].user]
      /\ issued[t] = None
      BY DEF ServeLogin, CreateSession, FreshToken
<1>d. /\ sessions' \in [Tokens -> Employees \union {None}]
      /\ issued' \in [Tokens -> Employees \union {None}]
      /\ issued'[t] # None
      /\ \A u \in Tokens \ {t} : /\ sessions'[u] = sessions[u]
                                 /\ issued'[u] = issued[u]
      BY <1>a, <1>b, <1>c DEF Inv, TypeOK, SessionTypeOK, CallOK
<1>e. UNCHANGED <<pageVars, ghostVars>> BY DEF ServeLogin
<1>1. TypeOK' BY <1>0, <1>d, <1>e DEF Inv, TypeOK, SessionTypeOK, pageVars, ghostVars
<1>2. TokenInv'
      BY <1>c, <1>d, <1>e DEF Inv, TokenInv, TypeOK, pageVars
<1>3. CallInv'
  <2> SUFFICES ASSUME NEW d \in Calls PROVE CallOK(d)' BY DEF CallInv
  <2>1. CallOK(d) /\ call[d].token \in Tokens \union {None}
        BY DEF Inv, CallInv, TypeOK, Call
  <2>2. CASE d # c
    <3>1. call'[d] = call[d] BY <1>0, <2>2 DEF Others
    <3>2. call[d].token # t BY <1>c, <2>1 DEF CallOK
    <3> QED BY <1>d, <2>1, <3>1, <3>2 DEF CallOK
  <2>3. CASE d = c BY <1>0, <1>a, <1>d, <2>3 DEF CallOK
  <2> QED BY <2>2, <2>3
<1>4. /\ PageInv'
      /\ CrossInv'
      /\ AloneInv'
      /\ PageIsOneLogin'
      /\ AnswersFollowQuestions'
      BY <1>0, <1>a, <1>e, PageUntouched DEF Others
<1>5. NoSessionForgotten'
  <2> SUFFICES ASSUME alone, NEW u \in Tokens, sessions'[u] # None, token # u
               PROVE  \E d \in Calls : /\ call'[d].kind = "login"
                                       /\ call'[d].token = u
                                       /\ call'[d].client # "over"
      BY <1>e DEF NoSessionForgotten, pageVars, ghostVars
  <2>1. CASE u = t BY <1>0, <1>a, <2>1 DEF CallOK
  <2>2. CASE u # t
    <3>1. PICK d \in Calls : /\ call[d].kind = "login"
                             /\ call[d].token = u
                             /\ call[d].client # "over"
          BY <1>d, <2>2 DEF Inv, NoSessionForgotten
    <3>2. d # c BY <1>a, <3>1 DEF CallOK
    <3> QED BY <1>0, <3>1, <3>2 DEF Others
  <2> QED BY <2>1, <2>2
<1> QED BY <1>1, <1>2, <1>3, <1>4, <1>5 DEF Inv

LEMMA RestartStep == Inv /\ Restart => Inv'
<1> SUFFICES ASSUME Inv, Restart PROVE Inv' OBVIOUS
<1>0. /\ call' \in [Calls -> Call]
      /\ \A c \in Calls :
             /\ call'[c].kind = call[c].kind
             /\ call'[c].user = call[c].user
             /\ call'[c].client = call[c].client
             /\ call'[c].token = call[c].token
             /\ call'[c].answered = call[c].answered
             /\ \/ call'[c].server = call[c].server
                \/ call[c].server = "pending" /\ call'[c].server = "dropped"
      BY RestartShape DEF Inv
<1>a. /\ \A t \in Tokens : sessions'[t] = None
      /\ sessions' \in [Tokens -> Employees \union {None}]
      /\ UNCHANGED <<issued, pageVars, ghostVars>>
      BY DEF Restart, NoSessions
<1>1. TypeOK' BY <1>0, <1>a DEF Inv, TypeOK, SessionTypeOK, pageVars, ghostVars
<1>2. TokenInv' BY <1>a DEF Inv, TokenInv, pageVars
<1>3. CallInv'
  <2> SUFFICES ASSUME NEW c \in Calls PROVE CallOK(c)' BY DEF CallInv
  <2>1. CallOK(c) /\ call[c].token \in Tokens \union {None}
        BY DEF Inv, CallInv, TypeOK, Call
  <2>2. call[c].server = "pending" /\ call[c].kind = "login" =>
            call[c].token = None
        BY <2>1 DEF CallOK
  <2> QED BY <1>0, <1>a, <2>1, <2>2 DEF CallOK
<1>4. /\ PageInv'
      /\ CrossInv'
      /\ AloneInv'
      /\ PageIsOneLogin'
      /\ AnswersFollowQuestions'
      BY <1>0, <1>a, PageUntouched
<1>5. NoSessionForgotten' BY <1>a DEF NoSessionForgotten
<1> QED BY <1>1, <1>2, <1>3, <1>4, <1>5 DEF Inv

LEMMA InvNext == Inv /\ [Next]_vars => Inv'
<1> SUFFICES ASSUME Inv, [Next]_vars PROVE Inv' OBVIOUS
<1>ok. \A c \in Calls : CallOK(c) BY DEF Inv, CallInv
<1>1. ASSUME NEW c \in Calls, NEW e \in Employees, ClickLogin(c, e) PROVE Inv'
      BY <1>1, SendStep DEF Inv, TokenInv, ClickLogin, pageVars, ghostVars, Kinds
<1>2. ASSUME NEW c \in Calls, ClickLogout(c) PROVE Inv'
      BY <1>2, SendStep DEF Inv, TypeOK, ClickLogout, pageVars, ghostVars, Kinds
<1>3. ASSUME NEW c \in Calls, Submit(c) PROVE Inv'
      BY <1>3, SendStep DEF Inv, TypeOK, Submit, Kinds
<1>4. ASSUME NEW c \in Calls, ReceiveLogin(c) PROVE Inv'
  <2>1. CASE call[c].server = "ok"
        BY <1>4, <2>1, HandOver DEF ReceiveLogin, Waiting, Open
  <2>2. CASE call[c].server = "refused"
        BY <1>4, <2>2, QuietStep, SettleShape
        DEF ReceiveLogin, Waiting, Open, pageVars, ghostVars, Inv
  <2> QED BY <1>4, <2>1, <2>2 DEF ReceiveLogin
<1>5. ASSUME NEW c \in Calls, ReceiveLogout(c) PROVE Inv'
      BY <1>5, <1>ok, HandOver DEF ReceiveLogout, Waiting, Open, CallOK
<1>6. ASSUME NEW c \in Calls, ReceiveChat(c) PROVE Inv'
  <2>1. CASE call[c].server = "refused"
        BY <1>6, <1>ok, <2>1, HandOver DEF ReceiveChat, Waiting, Open, CallOK
  <2>2. CASE call[c].server = "ok"
        BY <1>6, <2>2, QuietStep, SettleShape
        DEF ReceiveChat, Waiting, Open, pageVars, ghostVars, Inv
  <2> QED BY <1>6, <2>1, <2>2 DEF ReceiveChat
<1>7. ASSUME NEW c \in Calls, ReadText(c) PROVE Inv'
      BY <1>7, <1>ok, QuietStep, TextShape
      DEF ReadText, Answer, Open, Inv, CallOK
<1>8. ASSUME NEW c \in Calls, ReadEnd(c) PROVE Inv'
  <2>1. call[c].kind = "chat" /\ call[c].server \notin {"none", "pending"}
        BY <1>8, <1>ok DEF ReadEnd, CallOK
  <2> QED BY <1>8, <2>1, QuietStep, SettleShape DEF ReadEnd, Open, pageVars, ghostVars, Inv
<1>9. ASSUME NEW c \in Calls, Lose(c) PROVE Inv'
  <2>1. CASE call[c].kind = "chat"
        BY <1>9, <2>1, QuietStep, AnsweredShape DEF Lose, Answer, Inv
  <2>2. CASE call[c].kind # "chat"
        BY <1>9, <2>2, QuietStep, SettleShape DEF Lose, Inv
  <2> QED BY <2>1, <2>2
<1>10. ASSUME NEW c \in Calls, RefuseLogin(c) PROVE Inv'
      BY <1>10, ReplyStep DEF RefuseLogin, Pending
<1>11. ASSUME NEW c \in Calls, ServeLogout(c) PROVE Inv'
  <2>1. CASE Admitted(c)
        BY <1>11, <2>1, ReplyStep DEF ServeLogout, Pending
  <2>2. CASE ~Admitted(c)
        BY <1>11, <2>2, ReplyStep DEF ServeLogout, Pending, Admitted, GetSession
  <2> QED BY <2>1, <2>2
<1>12. ASSUME NEW c \in Calls, ServeChat(c) PROVE Inv'
  <2>1. CASE Admitted(c)
        BY <1>12, <2>1, ReplyStep DEF ServeChat, Pending
  <2>2. CASE ~Admitted(c)
        BY <1>12, <2>2, ReplyStep DEF ServeChat, Pending, Admitted, GetSession
  <2> QED BY <2>1, <2>2
<1>13. CASE UNCHANGED vars
  <2>1. UNCHANGED <<sessionVars, pageVars, call, ghostVars>>
        BY <1>13 DEF vars
  <2>2. /\ PageInv'
        /\ CrossInv'
        /\ AloneInv'
        /\ PageIsOneLogin'
        /\ AnswersFollowQuestions'
        BY <2>1, PageUntouched
  <2>3. TypeOK'
        BY <2>1
        DEF Inv, TypeOK, SessionTypeOK, sessionVars, pageVars, ghostVars
  <2> QED
      BY <2>1, <2>2, <2>3
      DEF Inv, TokenInv, CallInv, CallOK, NoSessionForgotten, sessionVars,
          pageVars, ghostVars
<1> QED
    BY <1>1, <1>2, <1>3, <1>4, <1>5, <1>6, <1>7, <1>8, <1>9, <1>10, <1>11,
       <1>12, <1>13, LoginStep, RestartStep DEF Next, Receive, Serve

-----------------------------------------------------------------------------
(* The theorems.                                                           *)

THEOREM Invariant == Spec => []Inv
<1> QED BY InitInv, InvNext, PTL DEF Spec

\* The page and the server's sessions are always well formed
\* (index.html:53-181, session_store.py).
THEOREM TypeCorrect == Spec => []TypeOK
<1>1. Inv => TypeOK BY DEF Inv
<1> QED BY <1>1, Invariant, PTL

\* As long as no handler outlives its login, the page shows only what was
\* asked under the token it holds (index.html:59-64, 134, 168).
THEOREM PageIsOneLoginHolds == Spec => []PageIsOneLogin
<1>1. Inv => PageIsOneLogin BY DEF Inv
<1> QED BY <1>1, Invariant, PTL

\* No question has two replies on the page; on the same condition each reply
\* stands below its question, and directly below it unless the question was
\* asked beside another (index.html:71-81, 134, 168-181).
THEOREM AnswersFollow == Spec => []AnswersFollowQuestions
<1>1. Inv => AnswersFollowQuestions BY DEF Inv
<1> QED BY <1>1, Invariant, PTL

\* On the same condition, no session is left behind that the page neither
\* holds nor waits for nor has lost the answer of (index.html:113-126).
THEOREM NoSessionForgottenHolds == Spec => []NoSessionForgotten
<1>1. Inv => NoSessionForgotten BY DEF Inv
<1> QED BY <1>1, Invariant, PTL

\* With no request of another login outstanding, the page returns to the login
\* view only after the server has ended its session (index.html:121-126,
\* 144-147).
THEOREM LoginEnds == Spec => LoginEndsWithItsSession
<1> DEFINE Ends == OwnCallsOnly /\ token # None /\ token' = None
                       => sessions[token] = None
<1>1. Inv /\ [Next]_vars => [Ends]_vars
  <2> SUFFICES ASSUME Inv, Next, OwnCallsOnly, token # None, token' = None
               PROVE  sessions[token] = None
      OBVIOUS
  <2>1. PICK c \in Calls : ReceiveLogin(c) \/ ReceiveLogout(c) \/ ReceiveChat(c)
        BY DEF Next, ClickLogin, ClickLogout, Submit, Receive, ReadText,
           ReadEnd, Lose, Serve, ServeLogin, RefuseLogin, ServeLogout,
           ServeChat, Restart, pageVars
  <2>2. CallOK(c) BY DEF Inv, CallInv
  <2>3. ~ReceiveLogin(c) BY <2>2 DEF ReceiveLogin, Waiting, CallOK, pageVars
  <2> QED BY <2>1, <2>2, <2>3
          DEF ReceiveLogout, ReceiveChat, Waiting, OwnCallsOnly, Open, CallOK,
              pageVars
<1> QED BY <1>1, Invariant, PTL DEF Spec, LoginEndsWithItsSession

=============================================================================
