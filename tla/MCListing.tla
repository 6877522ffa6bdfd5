------------------------------ MODULE MCListing ------------------------------
(***************************************************************************)
(* Instances of Listing for TLC.  A name says what its key looks like:     *)
(* d_s_x is "d/s/x".                                                       *)
(***************************************************************************)
EXTENDS Listing

c == <<99>>
d_ == <<100, Slash>>
d_a == d_ \o <<97>>
d_s == d_ \o <<115>>
d_s_dash == d_s \o <<45>>      \* "d/s-", which sorts between "d/s" and "d/s/"
d_s_ == Append(d_s, Slash)
d_s_x == d_s_ \o <<120>>
d_s_y == d_s_ \o <<121>>
d_z == d_ \o <<122>>

yy == <<255>>                  \* ends in a code point without successor
yy_a == yy \o <<Slash, 97>>
A_wide == <<65313>>            \* U+FF21, above the surrogates
smile == <<128512>>            \* U+1F600, written with surrogates

WalkNames == {c, d_, d_a, d_s, d_s_dash, d_s_x, d_s_y, d_z, yy, yy_a, A_wide}
WalkBusy == {d_a, d_s_x}
WalkPopulations == {WalkNames, WalkNames \ WalkBusy}
WalkSidecars == {{d_, d_a, d_s_x, d_z}}

\* Walks from the beginning, and from anywhere: before, inside, between and
\* behind the entries, in a folded directory, at keys that do not exist; with
\* prefixes of directories, of names, and without an upper bound.
RequestsOf(prefixes, limits, starts) ==
  [prefix : prefixes, recursive : BOOLEAN, limit : limits, start_after : starts]
WalkStarts == {c, d_, d_a, d_ \o <<98>>, d_s, d_s_, d_s_x, d_z, yy, Append(yy, Slash), A_wide}
WalkRequests ==
  RequestsOf({<<>>, d_, d_s, yy}, {None, 1, 2}, {None})
    \cup {r \in RequestsOf({<<>>, d_, d_s_}, {None, 1}, WalkStarts) : ~ResumesAtItself(r)}

\* The two orders of strings disagree on these.
WideNames == {A_wide, smile}
WideRequests == {[prefix |-> <<>>, recursive |-> TRUE, limit |-> 1, start_after |-> None]}

\* To resume after the listed directory itself.
SelfRequests == {[prefix |-> d_, recursive |-> FALSE, limit |-> None, start_after |-> d_]}

Nothing == {}
NoSidecars == {{}}
WidePopulation == {WideNames}
SelfNames == {d_a}
SelfPopulation == {SelfNames}
=============================================================================
