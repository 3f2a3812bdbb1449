-------------------------------- MODULE PrReceipt --------------------------------
(***************************************************************************)
(* What `aireceipts pr` counts: the sessions it credits and the subagent   *)
(* transcripts it rolls up under each (src/pr/index.ts, nested.ts,         *)
(* rollup.ts, promote.ts).  Which session has proof is PrContributors'     *)
(* matter, here any choice; what matters is that a subagent that is        *)
(* credited itself, with all that is under it, leaves its parent's rollup. *)
(* Agents may still be writing new transcripts while the command runs.     *)
(***************************************************************************)
EXTENDS Integers, FiniteSets

CONSTANTS
    Files,      \* transcripts
    Above,      \* the transcripts whose subagents/ directory each one is under
    Sidechains, \* top-level transcripts that are flagged as sidechains
    AtStart,    \* the files that exist when the command starts
    Live        \* may files appear while it runs?

TopLevel == {f \in Files : Above[f] = {}}
isChildPath(f) == Above[f] # {}
isDescendantOfContributor(f, ancestor) == ancestor \in Above[f]

ASSUME PrReceiptAssumption ==
    /\ Above \in [Files -> SUBSET Files]
    /\ \A f \in Files : f \notin Above[f] /\ IsFiniteSet(Above[f])
    /\ \A f \in Files : \A g \in Above[f] : Above[g] \subseteq Above[f]
    /\ \A f \in Files : \A g, h \in Above[f] : g = h \/ g \in Above[h] \/ h \in Above[g]
    /\ Sidechains \subseteq TopLevel
    /\ AtStart \subseteq Files
    /\ Live \in BOOLEAN

VARIABLES
    onDisk,
    phase,
    nested,       \* direct children that may be credited
    parents,      \* the top-level transcripts nested.ts has looked under
    contributors,
    sidechains,   \* those that may be promoted
    descendants,  \* promotedDescendants: the files found under each credited child
    rows,         \* the SUBAGENTS rows of each session that was rolled up
    considered,   \* what each rollup looked at, in its window or not
    covered,
    promoted

vars == <<onDisk, phase, nested, parents, contributors, sidechains,
          descendants, rows, considered, covered, promoted>>

Init ==
    /\ onDisk = AtStart
    /\ phase = "nested"
    /\ nested = {} /\ parents = {}
    /\ contributors = {} /\ sidechains = {}
    /\ descendants = [f \in {} |-> {}]
    /\ rows = [f \in {} |-> {}] /\ considered = [f \in {} |-> {}]
    /\ covered = {} /\ promoted = {}

discoverChildFiles(f) == {g \in onDisk : f \in Above[g]}

DirectChildren(f) == {g \in discoverChildFiles(f) : Above[g] = Above[f] \cup {f}}

Append1(fn, key, value) == [k \in DOMAIN fn \cup {key} |-> IF k = key THEN value ELSE fn[k]]

-----------------------------------------------------------------------------
(* A session starts, or a running one starts a subagent. *)
Appear ==
    /\ Live /\ phase # "done"
    /\ \E f \in Files \ onDisk :
          /\ Above[f] \subseteq onDisk
          /\ onDisk' = onDisk \cup {f}
    /\ UNCHANGED <<phase, nested, parents, contributors, sidechains,
                   descendants, rows, considered, covered, promoted>>

(* nestedCandidates: of each session listed, the direct children that load. *)
NestedCandidates(parent) ==
    /\ phase = "nested"
    /\ parent \in (TopLevel \cap AtStart) \ parents
    /\ parents' = parents \cup {parent}
    /\ \E loadable \in SUBSET DirectChildren(parent) : nested' = nested \cup loadable
    /\ UNCHANGED <<onDisk, phase, contributors, sidechains,
                   descendants, rows, considered, covered, promoted>>

(* selectExplicitSession: a listed session or anything under one. *)
Nameable == (TopLevel \cap AtStart) \cup UNION {discoverChildFiles(f) : f \in parents}

(* resolveContributors: one named transcript and nothing else, or those    *)
(* with proof and the ones named besides.                                  *)
Select ==
    /\ phase = "nested"
    /\ parents = TopLevel \cap AtStart
    /\ \/ \E f \in Nameable : contributors' = {f} /\ sidechains' = {}
       \/ /\ \E proved \in SUBSET ((parents \ Sidechains) \cup nested),
               explicit \in SUBSET Nameable :
                 contributors' = proved \cup explicit
          /\ sidechains' \in SUBSET (Sidechains \cap parents)
    /\ phase' = "descend"
    /\ UNCHANGED <<onDisk, nested, parents, descendants, rows, considered, covered, promoted>>

promotedChildPaths == {f \in contributors : isChildPath(f)}

Descend(f) ==
    /\ phase = "descend"
    /\ f \in promotedChildPaths \ DOMAIN descendants
    /\ descendants' = Append1(descendants, f, discoverChildFiles(f))
    /\ UNCHANGED <<onDisk, phase, nested, parents, contributors, sidechains,
                   rows, considered, covered, promoted>>

AllDescended ==
    /\ phase = "descend"
    /\ promotedChildPaths \subseteq DOMAIN descendants
    /\ phase' = "rollup"
    /\ UNCHANGED <<onDisk, nested, parents, contributors, sidechains,
                   descendants, rows, considered, covered, promoted>>

(* Mutation: one level only, a credited child's own subagents stay. *)
exclusionsFor_OneLevel(f) == promotedChildPaths

(* Mutation: every credited child's subtree, its own included. *)
exclusionsFor_Own(f) ==
    promotedChildPaths \cup UNION {descendants[g] : g \in promotedChildPaths}

exclusionsFor(f) ==
    promotedChildPaths \cup
    UNION {descendants[g] : g \in
             {h \in promotedChildPaths : h # f /\ isDescendantOfContributor(h, f)}}

(* rollupChildren: rows for those that overlap the window or do not load. *)
RollUp(f) ==
    LET found == discoverChildFiles(f) \ exclusionsFor(f)
    IN /\ considered' = Append1(considered, f, found)
       /\ \E shown \in SUBSET found :
             /\ rows' = Append1(rows, f, shown)
             /\ covered' = IF phase = "rollup" THEN covered \cup {f} \cup shown ELSE covered

RollUpContributor(f) ==
    /\ phase = "rollup"
    /\ f \in contributors \ DOMAIN rows
    /\ RollUp(f)
    /\ UNCHANGED <<onDisk, phase, nested, parents, contributors, sidechains,
                   descendants, promoted>>

(* promoteOrphanSidechains: those with proof that are not counted yet. *)
Promote ==
    /\ phase = "rollup"
    /\ contributors \subseteq DOMAIN rows
    /\ promoted' \in SUBSET (sidechains \ covered)
    /\ phase' = "promoted"
    /\ UNCHANGED <<onDisk, nested, parents, contributors, sidechains,
                   descendants, rows, considered, covered>>

RollUpPromoted(f) ==
    /\ phase = "promoted"
    /\ f \in promoted \ DOMAIN rows
    /\ RollUp(f)
    /\ UNCHANGED <<onDisk, phase, nested, parents, contributors, sidechains,
                   descendants, promoted>>

Finish ==
    /\ phase = "promoted"
    /\ promoted \subseteq DOMAIN rows
    /\ phase' = "done"
    /\ UNCHANGED <<onDisk, nested, parents, contributors, sidechains,
                   descendants, rows, considered, covered, promoted>>

Next ==
    \/ Appear \/ Select \/ AllDescended \/ Promote \/ Finish
    \/ \E f \in Files : NestedCandidates(f) \/ Descend(f)
                        \/ RollUpContributor(f) \/ RollUpPromoted(f)

Spec == Init /\ [][Next]_vars

-----------------------------------------------------------------------------
Credited == contributors \cup promoted
Considered == UNION {considered[f] : f \in DOMAIN considered}

TypeOK ==
    /\ onDisk \subseteq Files
    /\ phase \in {"nested", "descend", "rollup", "promoted", "done"}
    /\ parents \subseteq AtStart \cap TopLevel
    /\ nested \subseteq {f \in onDisk : \E g \in parents : Above[f] = {g}}
    /\ contributors \subseteq onDisk /\ sidechains \subseteq Sidechains \cap parents
    /\ DOMAIN descendants \subseteq promotedChildPaths
    /\ DOMAIN rows = DOMAIN considered /\ DOMAIN rows \subseteq Credited
    /\ \A f \in DOMAIN rows : rows[f] \subseteq considered[f]
    /\ covered \subseteq onDisk /\ promoted \subseteq sidechains

CountedTwice(f) ==
    \/ f \in contributors \cap promoted
    \/ f \in Credited /\ \E g \in DOMAIN rows : f \in rows[g]
    \/ \E g, h \in DOMAIN rows : g # h /\ f \in rows[g] \cap rows[h]

(* promote.ts:7, rollup.ts:84: no transcript counts twice, as a session of *)
(* its own and in a rollup, in two rollups, or as a contributor and a      *)
(* promoted sidechain.                                                     *)
NothingCountedTwice == \A f \in Files : ~CountedTwice(f)

(* ... which holds of every transcript that was there from the start.      *)
SettledCountedOnce == \A f \in AtStart : ~CountedTwice(f)

(* What leaves one rollup is not lost: when the receipt is complete, every *)
(* transcript that was there from the start under a credited session is    *)
(* credited or was looked at by a rollup.                                  *)
NoChildForgotten ==
    phase = "done" =>
        \A f \in AtStart : Above[f] \cap Credited # {} => f \in Credited \cup Considered
================================================================================
