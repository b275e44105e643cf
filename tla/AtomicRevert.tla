---------------------------- MODULE AtomicRevert ----------------------------
(***************************************************************************)
(* What Revert and Redo promise of a conversation (docs/CONCURRENT_REVERT  *)
(* .md): its messages and their file contributions go and come back        *)
(* together, for every session of the request at once, or not at all.      *)
(* While a session is fenced it takes no prompt.                           *)
(***************************************************************************)
EXTENDS Naturals

CONSTANTS Session, Message

VARIABLES shown,   \* [Session -> SUBSET Message]: the messages that count, in chat and in files
          fenced   \* the sessions some request holds

vars == <<shown, fenced>>

Init == shown = [s \in Session |-> {}] /\ fenced = {}

Prompt(s) ==
    /\ s \notin fenced
    /\ \E n \in Message : shown' = [shown EXCEPT ![s] = @ \cup {n}]
    /\ UNCHANGED fenced

Fence(S) ==
    /\ S \cap fenced = {}
    /\ fenced' = fenced \cup S
    /\ UNCHANGED shown

\* One settlement for all the sessions of a request: everything it selected
\* goes, or everything comes back, or (cancelled) nothing changes.
Settle(S) ==
    /\ S \subseteq fenced
    /\ fenced' = fenced \ S
    /\ \A s \in Session \ S : shown'[s] = shown[s]
    /\ \/ \A s \in S : shown'[s] \subseteq shown[s]
       \/ \A s \in S : shown[s] \subseteq shown'[s]
    /\ DOMAIN shown' = Session

Next ==
    \/ \E s \in Session : Prompt(s)
    \/ \E S \in (SUBSET Session) \ {{}} : Fence(S) \/ Settle(S)

Spec == Init /\ [][Next]_vars
=============================================================================
