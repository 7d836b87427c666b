----------------------------- MODULE MCDownload -----------------------------
(* Download and SaveBundles on a small instance: URLs listed out of URL order. *)
EXTENDS SaveBundles

CONSTANTS a, b, x, long

MCUrls == <<2, 4, 1, 3>>

\* A plain segment, one that is too long, and ones that look like fallback names.
MCSegment == {x, long, <<1, 0>>, <<4, 0>>}

\* Saving starts from the outcome, which does not depend on the schedule
\* (OutcomeIsSequential): it is followed after one schedule only.
OneSchedule == file_name' # file_name => \A w \in Workers \ {1} : index[w] = 0

FairSaveSpec ==
  SaveInit /\ [][SaveNext /\ OneSchedule]_<<vars, saving>> /\ Fairness
=============================================================================
