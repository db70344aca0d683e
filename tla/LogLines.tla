------------------------------ MODULE LogLines ------------------------------
(***************************************************************************)
(* The lines of a log as AsyncLogging accounts for them: a file out is a   *)
(* sequence of line numbers, where a 0 is a notice of dropped buffers, and *)
(* way is the sequence of the buffers that are to follow.                  *)
(***************************************************************************)
EXTENDS Naturals, Functions

\* The lines of s, among which a 0 is a notice, are in the order of append, each once;
\* those of s are all older than those of t.
Ascends(s) == \A i, j \in DOMAIN s : i < j /\ s[j] # 0 => s[i] < s[j]
Precedes(s, t) == \A i \in DOMAIN s, j \in DOMAIN t : s[i] < t[j]

Held(out, way) == (Range(out) \ {0}) \cup UNION {Range(way[a]) : a \in DOMAIN way}

\* Among the first k entries of the file, the notices, and the lines before which some are
\* missing although older ones are there.
Notices(out, k) == {i \in 1..k : out[i] = 0}
Gaps(out, k) ==
    {i \in 1..k : /\ out[i] # 0
                  /\ \E j \in 1..(i - 1) : out[j] # 0
                  /\ \A j \in 1..(i - 1) : out[j] # out[i] - 1}

\* The first entry of every run of entries that were lost.
Runs(lost) == {i \in lost : i - 1 \notin lost}
=============================================================================
