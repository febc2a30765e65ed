--------------------------- MODULE BrowserClient ---------------------------
(***************************************************************************)
(* static/index.html: the page one user sees, beside the sessions of the   *)
(* server.  Every click starts an async handler that awaits a fetch; while *)
(* it waits other handlers run, all on one token, one view and one list of *)
(* messages.  A call is one run of a handler and the request it makes.     *)
(*                                                                         *)
(* The client's end and the server's end of a call are kept apart: a fetch *)
(* may fail at the client before or after the server has served it, and a  *)
(* request the client has given up may still be served.                    *)
(*                                                                         *)
(* External, as used here: a fetch settles once; of a chat response the    *)
(* page sees any number of texts (token or error events), then its end, or *)
(* is cut off; a cut makes read() reject.                                  *)
(***************************************************************************)
EXTENDS SessionStore, Naturals, Sequences

CONSTANT MaxCalls   \* bounds the clicks

ASSUME BrowserAssumption == MaxCalls \in Nat

\* Calls are numbered in the order of the clicks that start them.
Calls == 1..MaxCalls

VARIABLES
    token,          \* the page's global token
    view,           \* the view that has class "active"
    page,           \* the children of messagesEl in order, as <<call, role>>
    call,           \* call[c]: handler and request of click c
    alone,          \* ghost: the page changed hands only while one handler ran
    crossed         \* ghost: questions under way together with another

pageVars == <<token, view, page>>
ghostVars == <<alone, crossed>>
vars == <<sessionVars, pageVars, call, ghostVars>>

Kinds == {"login", "logout", "chat"}

Call ==
    [kind   : Kinds \union {"none"},
     client : {"idle", "waiting", "reading", "over", "lost"},
     server : {"none", "pending", "ok", "refused", "dropped"},
     user   : Employees \union {None},      \* who logs in
     token  : Tokens \union {None},         \* token sent, or returned by login
     answered : BOOLEAN]                    \* answerEl is set

NoCall ==
    [kind |-> "none", client |-> "idle", server |-> "none", user |-> None,
     token |-> None, answered |-> FALSE]

Roles == {"You", "Assistant"}

TypeOK ==
    /\ SessionTypeOK
    /\ token \in Tokens \union {None}
    /\ view \in {"login", "chat"}
    /\ page \in Seq(Calls \X Roles)
    /\ call \in [Calls -> Call]
    /\ alone \in BOOLEAN
    /\ crossed \subseteq Calls

Init ==
    /\ SessionInit
    /\ token = None
    /\ view = "login"
    /\ page = << >>
    /\ call = [c \in Calls |-> NoCall]
    /\ alone = TRUE
    /\ crossed = {}

-----------------------------------------------------------------------------

\* Mutant: the messages stay where they are.
ShowLoginKeepsMessages ==
    /\ token' = None
    /\ view' = "login"
    /\ UNCHANGED page

ShowLogin ==
    /\ token' = None
    /\ view' = "login"
    /\ page' = << >>

\* appendChild: below whatever is there.
AddMessage(c, role) == page' = Append(page, <<c, role>>)

Shown(c, role) == \E i \in 1..Len(page) : page[i] = <<c, role>>

Open(c) == call[c].client \in {"waiting", "reading"}

Asking(c) == call[c].kind = "chat" /\ Open(c)

\* Question c is asked while others wait for their answers, or not.
Cross(c) ==
    LET others == {d \in Calls \ {c} : Asking(d)}
    IN  crossed' = crossed \union others \union (IF others = {} THEN {} ELSE {c})

\* The page changes hands while handler c alone is under way, or not.
ChangeHands(c) ==
    /\ alone' = (alone /\ \A d \in Calls \ {c} : ~Open(d))
    /\ UNCHANGED crossed

Send(c, kind, user, sent) ==
    /\ call[c].kind = "none"
    /\ \A d \in 1..(c - 1) : call[d].kind # "none"
    /\ call' = [call EXCEPT ![c] =
           [kind |-> kind, client |-> "waiting", server |-> "pending",
            user |-> user, token |-> sent, answered |-> FALSE]]

Settle(c, client) == call' = [call EXCEPT ![c].client = client]

Waiting(c, kind) == call[c].kind = kind /\ call[c].client = "waiting"

-----------------------------------------------------------------------------
(* Log in.                                                                 *)

ClickLogin(c, e) ==
    /\ view = "login"
    /\ Send(c, "login", e, None)
    /\ UNCHANGED <<sessionVars, pageVars, ghostVars>>

ReceiveLogin(c) ==
    /\ Waiting(c, "login")
    /\ \/ /\ call[c].server = "ok"
          /\ token' = call[c].token
          /\ view' = "chat"
          /\ ChangeHands(c)
          /\ UNCHANGED page
       \/ /\ call[c].server = "refused"
          /\ UNCHANGED <<pageVars, ghostVars>>
    /\ Settle(c, "over")
    /\ UNCHANGED sessionVars

-----------------------------------------------------------------------------
(* Log out.                                                                *)

\* Mutant: the page does not wait for the server.
ClickLogoutAtOnce(c) ==
    /\ view = "chat"
    /\ Send(c, "logout", None, token)
    /\ ShowLogin
    /\ ChangeHands(c)
    /\ UNCHANGED sessionVars

\* The chat view is only ever shown with a token.
ClickLogout(c) ==
    /\ view = "chat"
    /\ token # None
    /\ Send(c, "logout", None, token)
    /\ UNCHANGED <<sessionVars, pageVars, ghostVars>>

\* The status of the response is not looked at.
ReceiveLogout(c) ==
    /\ Waiting(c, "logout")
    /\ call[c].server \in {"ok", "refused"}
    /\ ShowLogin
    /\ ChangeHands(c)
    /\ Settle(c, "over")
    /\ UNCHANGED sessionVars

-----------------------------------------------------------------------------
(* Ask.                                                                    *)

Submit(c) ==
    /\ view = "chat"
    /\ token # None
    /\ Send(c, "chat", None, token)
    /\ AddMessage(c, "You")
    /\ Cross(c)
    /\ UNCHANGED <<sessionVars, token, view, alone>>

ReceiveChat(c) ==
    /\ Waiting(c, "chat")
    /\ \/ /\ call[c].server = "refused"
          /\ ShowLogin
          /\ ChangeHands(c)
          /\ Settle(c, "over")
       \/ /\ call[c].server = "ok"
          /\ Settle(c, "reading")
          /\ UNCHANGED <<pageVars, ghostVars>>
    /\ UNCHANGED sessionVars

\* The answer's element is made by the first text, in whatever list there is
\* then, and later texts go to that element, wherever it is.
Answer(c) ==
    IF call[c].answered
    THEN UNCHANGED page
    ELSE AddMessage(c, "Assistant")

ReadText(c) ==
    /\ call[c].client = "reading"
    /\ Answer(c)
    /\ call' = [call EXCEPT ![c].answered = TRUE]
    /\ UNCHANGED <<sessionVars, token, view, ghostVars>>

ReadEnd(c) ==
    /\ call[c].client = "reading"
    /\ Settle(c, "over")
    /\ UNCHANGED <<sessionVars, pageVars, ghostVars>>

-----------------------------------------------------------------------------
(* The fetch or the read rejects.  Only the chat handler puts a message on *)
(* the page, and only where there is no answer yet; the logout handler     *)
(* ends without showLogin.  The branch for !res.ok does the same as its    *)
(* catch clause; api.py has no such reply to what the page sends.          *)

\* Mutant: the message is left to an answer that does not exist.
LoseSilently(c) ==
    /\ Open(c)
    /\ Settle(c, "lost")
    /\ UNCHANGED <<sessionVars, pageVars, ghostVars>>

\* Mutant: the catch clause does not look whether there is an answer.
LoseTwice(c) ==
    /\ Open(c)
    /\ IF call[c].kind = "chat"
       THEN /\ AddMessage(c, "Assistant")
            /\ call' = [call EXCEPT ![c].client = "lost", ![c].answered = TRUE]
       ELSE /\ Settle(c, "lost")
            /\ UNCHANGED page
    /\ UNCHANGED <<sessionVars, token, view, ghostVars>>

Lose(c) ==
    /\ Open(c)
    /\ IF call[c].kind = "chat"
       THEN /\ Answer(c)
            /\ call' = [call EXCEPT ![c].client = "lost", ![c].answered = TRUE]
       ELSE /\ Settle(c, "lost")
            /\ UNCHANGED page
    /\ UNCHANGED <<sessionVars, token, view, ghostVars>>

Receive(c) ==
    \/ ReceiveLogin(c)
    \/ ReceiveLogout(c)
    \/ ReceiveChat(c)
    \/ ReadEnd(c)

-----------------------------------------------------------------------------
(* The server's end: api.py.                                               *)

Pending(c, kind) == call[c].kind = kind /\ call[c].server = "pending"

Reply(c, reply) == call' = [call EXCEPT ![c].server = reply]

\* Mutant: the login is answered with the employee in place of the token.
ServeLoginSwapped(c, t) ==
    /\ Pending(c, "login")
    /\ CreateSession(call[c].user, t)
    /\ call' = [call EXCEPT ![c].server = "ok", ![c].token = call[c].user]
    /\ UNCHANGED <<pageVars, ghostVars>>

ServeLogin(c, t) ==
    /\ Pending(c, "login")
    /\ CreateSession(call[c].user, t)
    /\ call' = [call EXCEPT ![c].server = "ok", ![c].token = t]
    /\ UNCHANGED <<pageVars, ghostVars>>

RefuseLogin(c) ==
    /\ Pending(c, "login")
    /\ Reply(c, "refused")
    /\ UNCHANGED <<sessionVars, pageVars, ghostVars>>

Admitted(c) == GetSession(call[c].token) # None

\* Mutant: logout forgets to delete the session.
ServeLogoutKeeps(c) ==
    /\ Pending(c, "logout")
    /\ Reply(c, IF Admitted(c) THEN "ok" ELSE "refused")
    /\ UNCHANGED <<sessionVars, pageVars, ghostVars>>

ServeLogout(c) ==
    /\ Pending(c, "logout")
    /\ IF Admitted(c)
       THEN DeleteSession(call[c].token) /\ Reply(c, "ok")
       ELSE UNCHANGED sessionVars /\ Reply(c, "refused")
    /\ UNCHANGED <<pageVars, ghostVars>>

ServeChat(c) ==
    /\ Pending(c, "chat")
    /\ Reply(c, IF Admitted(c) THEN "ok" ELSE "refused")
    /\ UNCHANGED <<sessionVars, pageVars, ghostVars>>

Serve(c) ==
    \/ \E t \in Tokens : ServeLogin(c, t)
    \/ RefuseLogin(c)
    \/ ServeLogout(c)
    \/ ServeChat(c)

\* The sessions go, and with them the requests not yet served.
Restart ==
    /\ sessions' = NoSessions
    /\ call' = [c \in Calls |-> IF call[c].server = "pending"
                                THEN [call[c] EXCEPT !.server = "dropped"]
                                ELSE call[c]]
    /\ UNCHANGED <<issued, pageVars, ghostVars>>

Next ==
    \/ \E c \in Calls :
           \/ \E e \in Employees : ClickLogin(c, e)
           \/ ClickLogout(c)
           \/ Submit(c)
           \/ Receive(c)
           \/ ReadText(c)
           \/ Lose(c)
           \/ Serve(c)
    \/ Restart

Spec == Init /\ [][Next]_vars

\* A fetch settles and a stream ends, well or badly.
FairSpec == Spec /\ \A c \in Calls : WF_vars(Receive(c) \/ Lose(c))

-----------------------------------------------------------------------------
(* Properties.                                                             *)

\* As long as no handler outlives the login it was started in, the page shows
\* only what was asked under the token it holds (index.html:59-64, 134, 168): no
\* text of an earlier login.
PageIsOneLogin ==
    alone => \A i \in 1..Len(page) : call[page[i][1]].token = token

\* No question has two replies; on the same condition a reply stands below its
\* question, and directly below it unless the question was asked beside
\* another: then what is appended first stands first (index.html:71-81, 134,
\* 168-181).
AnswersFollowQuestions ==
    /\ \A i, j \in 1..Len(page) : page[i] = page[j] => i = j
    /\ alone => \A i \in 1..Len(page) : page[i][2] = "Assistant" =>
           \E j \in 1..(i - 1) :
               /\ page[j] = <<page[i][1], "You">>
               /\ page[i][1] \notin crossed => j = i - 1

\* As long as no handler outlives its login, every session alive on the server
\* is the one the page holds, or its token is on the way to the page, or was
\* lost on the way (index.html:113-126): logging out leaves none behind.
NoSessionForgotten ==
    alone => \A t \in Tokens : sessions[t] # None =>
        \/ token = t
        \/ \E c \in Calls :
               /\ call[c].kind = "login"
               /\ call[c].token = t
               /\ call[c].client # "over"

\* Unless some request of another login is outstanding, the page returns to
\* the login view only when the session of its token is gone
\* (index.html:121-126, 144-147; _require_session, api.py:38-45).
OwnCallsOnly ==
    \A c \in Calls : Open(c) /\ call[c].kind # "login" => call[c].token = token

LoginEndsWithItsSession ==
    [][OwnCallsOnly /\ token # None /\ token' = None => sessions[token] = None]_vars

\* Whatever overlaps, every question gets a reply on the page that still shows
\* it, a message in place of an answer included, but for an answer that was
\* complete and had no text (index.html:128-181).
Replied(c) ==
    \/ Shown(c, "Assistant")
    \/ ~Shown(c, "You")
    \/ call[c].client = "over" /\ ~call[c].answered

QuestionsSettle ==
    \A c \in Calls :
        call[c].kind = "chat" ~> call[c].client \in {"over", "lost"} /\ Replied(c)

=============================================================================
