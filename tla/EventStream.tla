----------------------------- MODULE EventStream -----------------------------
(***************************************************************************)
(* What a live stream of the dashboard promises to its viewers: while it   *)
(* is on, a stream shows events published after it was opened, in the      *)
(* order of publication and each at most once; it may miss some; once the  *)
(* source is down no stream is opened.                                     *)
(***************************************************************************)
EXTENDS Naturals

CONSTANT Viewers

VARIABLES
    published,  \* number of events published so far; event n is the n-th
    down,       \* the source has been shut down
    view        \* what each viewer has: a stream or not, and the event it saw last

streamVars == <<published, down, view>>

Off == [on |-> FALSE, last |-> 0]

Init ==
    /\ published = 0
    /\ down = FALSE
    /\ view = [v \in Viewers |-> Off]

Publish == ~down /\ published' = published + 1 /\ UNCHANGED <<down, view>>

Open(v) ==
    /\ ~down
    /\ ~view[v].on
    /\ view' = [view EXCEPT ![v] = [on |-> TRUE, last |-> published]]
    /\ UNCHANGED <<published, down>>

(* Nothing published before the last event seen, or before the stream was  *)
(* opened, is shown any more.                                              *)
See(v) ==
    /\ view[v].on
    /\ \E e \in view[v].last + 1 .. published : view' = [view EXCEPT ![v].last = e]
    /\ UNCHANGED <<published, down>>

End(v) ==
    /\ view[v].on
    /\ view' = [view EXCEPT ![v] = Off]
    /\ UNCHANGED <<published, down>>

ShutDown == down' = TRUE /\ UNCHANGED <<published, view>>

Next == Publish \/ ShutDown \/ \E v \in Viewers : Open(v) \/ See(v) \/ End(v)

Spec == Init /\ [][Next]_streamVars

=============================================================================
