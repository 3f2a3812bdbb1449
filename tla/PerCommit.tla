-------------------------------- MODULE PerCommit --------------------------------
(***************************************************************************)
(* The per-commit table of a sliced session (segmentSlice,                 *)
(* src/pr/perCommit.ts, over anchorEvents, src/pr/slice.ts): each turn of  *)
(* the slice is booked to the branch commit whose line is printed next.    *)
(* `log` is the branch, oldest commit first.                               *)
(***************************************************************************)
EXTENDS GitEvidence

(* anchorEvents: the branch's commits that a turn's `git commit` printed. *)
CommittedIn(turn, transcript, branch, aliases) ==
    UNION {UNION {UNION {BranchSha(r, branch, aliases) : r \in RunsOf(call, i)} :
                    i \in WithVerb(call, "commit")} :
             call \in {c \in ToSet(transcript) : c.turn = turn}}

(* Mutation: a name that was already booked bounds a segment again. *)
Fresh_Again(turn, slice, transcript, branch, aliases) ==
    CommittedIn(turn, transcript, branch, aliases)

(* Commits that no earlier turn of the slice printed. *)
Fresh(turn, slice, transcript, branch, aliases) ==
    CommittedIn(turn, transcript, branch, aliases)
        \ UNION {CommittedIn(t, transcript, branch, aliases) : t \in slice.start..(turn - 1)}

Earliest(shas, log) == log[Min({i \in DOMAIN log : log[i] \in shas})]

(* The k-th of a set of turns, the earliest first. *)
Nth(turns, k) == CHOOSE t \in turns : Cardinality({u \in turns : u <= t}) = k

(* The turns after the last boundary, a closing push, stay with the last. *)
SegmentSlice(slice, transcript, log, aliases) ==
    LET fresh(t) == Fresh(t, slice, transcript, ToSet(log), aliases)
        bounds == {t \in slice.start..slice.end : fresh(t) # {}}
        last == Cardinality(bounds)
        segment(k) ==
            LET shas == fresh(Nth(bounds, k))
                owner == Earliest(shas, log)
            IN [sha |-> owner,
                extra |-> shas \ {owner},
                start |-> IF k = 1 THEN slice.start ELSE Nth(bounds, k - 1) + 1,
                end |-> IF k = last THEN slice.end ELSE Nth(bounds, k)]
    IN IF slice.kind # "slice" THEN <<>> ELSE [k \in 1..last |-> segment(k)]
================================================================================
