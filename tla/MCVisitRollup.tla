------------------------------ MODULE MCVisitRollup ------------------------------
(* An instance of VisitRollup for TLC.                                      *)
EXTENDS VisitRollup, TLC

CONSTANTS s1, s2, q1, q2, c1, l1, l2

(* Values 4 and 5 are the raw and the normal form of one text, 6 another.   *)
MCNormal == [x \in 0..6 |-> IF x = 4 THEN 5 ELSE x]

Plain == [site |-> s1, originAllowed |-> TRUE, urlValid |-> TRUE, visitorValid |-> TRUE,
          path |-> [name |-> 1, slashes |-> 0], visitor |-> 1, bot |-> FALSE,
          utm |-> [source |-> Blank, medium |-> Blank, campaign |-> Blank],
          referrer |-> Blank]

(* Two visits of one visitor to two pages, the second from a campaign; or   *)
(* the second is anonymous and to another site, or of a bot, or comes       *)
(* without a URL.                                                           *)
MCBeacons ==
    (q1 :> {[Plain EXCEPT !.referrer = 5]}) @@
    (q2 :> {[Plain EXCEPT !.path = [name |-> 2, slashes |-> 1],
                          !.utm = [source |-> 4, medium |-> 6, campaign |-> 4]],
            [Plain EXCEPT !.site = s2, !.visitor = Anonymous],
            [Plain EXCEPT !.bot = TRUE],
            [Plain EXCEPT !.urlValid = FALSE]})

(* All visits are explored with one loop that runs on its timer; calls of   *)
(* Stop and a second Start as long as only the visit of q1 was sent, so that *)
(* two runs overlap, also across midnight; Trigger and the end of the parent *)
(* context without visits on the first two days.  The first Start launches  *)
(* l1: which loop it is makes no difference.                                *)
Unasked == ~parentDone /\ ~trigger
Undisturbed == Unasked /\ stopping = [c \in Callers |-> Idle] /\ cancelled = {}
NoVisit == (\A q \in Requests : request[q].pc = "new") /\ now <= DayLength
OneVisit == Unasked /\ request[q2].pc = "new"
Explored == /\ Undisturbed \/ OneVisit \/ NoVisit
            /\ loop[l1] = "unborn" => loop[l2] = "unborn"

MCDepthBounds == <<1, 2, 3>>
MCObservedBounds == <<1, 2, 3>>

==================================================================================
