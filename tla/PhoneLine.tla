----------------------------- MODULE PhoneLine -----------------------------
(***************************************************************************)
(* What the call engine promises, without signalling, media or callbacks:  *)
(* a phone with one line.  A dialogue takes the free line, may become a    *)
(* conversation, and gives the line back; it has the line at most once.    *)
(* The line can be lost for good, because the program loses it: after the  *)
(* local user hangs up, lc->call is never NULL again.                      *)
(***************************************************************************)
CONSTANT Dialogue

VARIABLES
  state,   \* "free", "setup", "talk" or "lost"
  who,     \* the dialogue that has the line: at most one
  caller,  \* the dialogue being set up is an outgoing call
  over     \* the dialogues that are over and in the log

vars == <<state, who, caller, over>>

Init ==
  /\ state = "free"
  /\ who = {}
  /\ caller = FALSE
  /\ over = {}

Fresh(c) == c \in Dialogue \ (over \cup who)

\* linphone_core_invite or linphone_inc_new_call on a free line
Setup(c) ==
  /\ state = "free"
  /\ Fresh(c)
  /\ state' = "setup"
  /\ who' = {c}
  /\ caller' \in BOOLEAN
  /\ over' = over

\* The media start, in both directions of the call: the conversation.
Talk ==
  /\ state = "setup"
  /\ state' = "talk"
  /\ caller' = FALSE
  /\ UNCHANGED <<who, over>>

\* Only a call that is being placed can move to another destination.
Redirect(c) ==
  /\ state = "setup"
  /\ caller
  /\ Fresh(c)
  /\ who' = {c}
  /\ over' = over \cup who
  /\ UNCHANGED <<state, caller>>

\* The call ends from outside and is logged.
End ==
  /\ state \in {"setup", "talk"}
  /\ state' = "free"
  /\ who' = {}
  /\ caller' = FALSE
  /\ over' = over \cup who

\* A call that could not even be negotiated is logged without taking the line.
Refuse(c) ==
  /\ state = "free"
  /\ Fresh(c)
  /\ over' = over \cup {c}
  /\ UNCHANGED <<state, who, caller>>

\* The local side terminates the call (it is logged), or the program dies.
Lose ==
  /\ state # "lost"
  /\ state' = "lost"
  /\ who' = {}
  /\ caller' = FALSE
  /\ over' \in {over, over \cup who}

Next ==
  \/ Talk \/ End \/ Lose
  \/ \E c \in Dialogue : Setup(c) \/ Redirect(c) \/ Refuse(c)

Spec == Init /\ [][Next]_vars
============================================================================
