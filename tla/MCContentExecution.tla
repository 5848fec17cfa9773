------------------------- MODULE MCContentExecution -------------------------
(***************************************************************************)
(* Instances of ContentExecution for TLC: one content row that one or two  *)
(* operations work on, for each of the workloads a run names.              *)
(***************************************************************************)
EXTENDS ContentExecution, TLC

CONSTANTS page, first, second, r1, r2

Page == {page}
One == {first}
Two == {first, second}
Request == {r1}
Requests == {r1, r2}
RequestSymmetry == Permutations(Requests)
OnPage == [j \in Jobs |-> page]

Unparsed == [c \in Contents |-> "pending"]
Parsed == [c \in Contents |-> "parsed"]
BothSummarize == [j \in Jobs |-> "summary"]
ParseThenProcess == [j \in Jobs |-> IF j = first THEN "url" ELSE "process"]

Summaries ==
  [jobs |-> Jobs, kind |-> BothSummarize, forced |-> {}, stopped |-> {first},
   start |-> Parsed, direct |-> {}, runs |-> Runs]
Phases(r) ==
  [Summaries EXCEPT !.kind = ParseThenProcess, !.stopped = Jobs, !.start = Unparsed,
                    !.runs = {r}]
ForcedAlone == [Summaries EXCEPT !.jobs = {first}, !.forced = {first}]
ForcedBesideOther(r) ==
  [Summaries EXCEPT !.forced = {first}, !.stopped = {}, !.runs = {r}]
ForcedBesideDirect ==
  [ForcedAlone EXCEPT !.stopped = {}, !.direct = {"processing"}]
UrlBesideDirect ==
  [Summaries EXCEPT !.jobs = {first}, !.kind = ParseThenProcess, !.start = Unparsed,
                    !.direct = {"parsing", "processing"}]

OneSummary == {Summaries}
Mixed == {Summaries, ForcedAlone, ForcedBesideDirect, UrlBesideDirect}
           \cup {Phases(r) : r \in Runs} \cup {ForcedBesideOther(r) : r \in Runs}

=============================================================================
