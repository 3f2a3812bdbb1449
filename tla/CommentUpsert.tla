------------------------------ MODULE CommentUpsert ------------------------------
(***************************************************************************)
(* The receipt comment of one pull request and the runs that upsert it:    *)
(* `upsertPrComment` (src/pr/comment.ts, the developer's `gh`) and         *)
(* `upsertMarkerComment` (src/pr/commentApi.ts, the CI check).  Both list  *)
(* the comments page by page, take the first whose body starts with the    *)
(* marker, and then PATCH it by id or POST a new one; `gh` reads every     *)
(* page before anything is looked at, the CI check stops at the marker.    *)
(* People comment, and delete comments, at any moment.                     *)
(*                                                                         *)
(* A comment carries `creator` and `born` (the runs that had begun when it *)
(* was created) only so that properties can be stated.                     *)
(***************************************************************************)
EXTENDS Integers, Sequences, FiniteSets, SequencesExt

CONSTANTS
    Runs,        \* runs of an upsert, each with its own receipt body
    GhRuns,      \* those of upsertPrComment; the others are the CI check's
    Human,       \* a body that does not start with the marker
    None,
    PerPage,     \* PER_PAGE
    MaxComments  \* bound: comments ever created on the thread

Outcomes == {"created", "updated", "error"}

ASSUME CommentAssumption ==
    /\ GhRuns \subseteq Runs
    /\ Human \notin Runs /\ None \notin Outcomes
    /\ PerPage \in Nat \ {0}
    /\ MaxComments \in Nat

VARIABLES
    thread,   \* the comments of the pull request, oldest first
    nextId,   \* GitHub's next comment id
    pc,       \* where each run stands
    page,     \* the page each run asks for next
    target,   \* the marker comment each run has found
    outcome,  \* the UpsertOutcome of each run
    began,    \* nextId when the run asked for its first page
    solo,     \* runs that overlapped no other run so far
    disturbed \* runs whose listing was garbled, or lost a comment meanwhile

commentVars == <<thread, nextId, pc, page, target, outcome, began, solo, disturbed>>

Listing == {"list"}
Active == {"list", "patch", "post"}
Ongoing == {r \in Runs : pc[r] \in Active}

IsMarker(c) == c.body # Human
Ids == {thread[i].id : i \in 1..Len(thread)}
Markers == {i \in 1..Len(thread) : IsMarker(thread[i])}
FirstMarker == Min(Markers)

CommentInit ==
    /\ thread = <<>>
    /\ nextId = 1
    /\ pc = [r \in Runs |-> "idle"]
    /\ page = [r \in Runs |-> 1]
    /\ target = [r \in Runs |-> 0]
    /\ outcome = [r \in Runs |-> None]
    /\ began = [r \in Runs |-> 0]
    /\ solo = Runs
    /\ disturbed = {}

-----------------------------------------------------------------------------
(* resolvePr has named the pull request; the listing begins. *)
BeginUpsert(r) ==
    /\ pc[r] = "idle"
    /\ pc' = [pc EXCEPT ![r] = "list"]
    /\ began' = [began EXCEPT ![r] = nextId]
    /\ solo' = IF Ongoing = {} THEN solo ELSE solo \ (Ongoing \cup {r})
    /\ UNCHANGED <<thread, nextId, page, target, outcome, disturbed>>

(* One GET: the places in the thread that are on the page at this moment. *)
PageOf(n) == ((n - 1) * PerPage + 1)..Min({n * PerPage, Len(thread)})

(* markerFromPage, findMarkerCommentId: comments whose body starts with *)
(* the marker.                                                          *)
MarkersIn(n) == PageOf(n) \cap Markers

(* Mutation: only the first page is ever read. *)
IsLastPage_Always(n) == TRUE

(* A page that is not full, or empty. *)
IsLastPage(n) == Len(thread) < n * PerPage

(* findMarkerComment*: the first marker seen is kept.  Without one after   *)
(* the last page the run posts.                                            *)
ListPage(r) ==
    /\ pc[r] = "list"
    /\ LET found == MarkersIn(page[r])
           last == IsLastPage(page[r])
           first == IF target[r] = 0 /\ found # {} THEN thread[Min(found)].id ELSE target[r]
       IN /\ target' = [target EXCEPT ![r] = first]
          /\ \/ /\ first # 0 /\ (r \notin GhRuns \/ last)
                /\ pc' = [pc EXCEPT ![r] = "patch"]
                /\ UNCHANGED page
             \/ /\ first = 0 /\ last
                /\ pc' = [pc EXCEPT ![r] = "post"]
                /\ UNCHANGED page
             \/ /\ (first = 0 \/ r \in GhRuns) /\ ~last
                /\ page' = [page EXCEPT ![r] = @ + 1]
                /\ UNCHANGED pc
    /\ UNCHANGED <<thread, nextId, outcome, began, solo, disturbed>>

(* findMarkerCommentId: output of `gh` that is not a JSON array counts as a *)
(* thread without a receipt comment.                                        *)
GarbledListing(r) ==
    /\ pc[r] = "list" /\ r \in GhRuns
    /\ pc' = [pc EXCEPT ![r] = "post"]
    /\ target' = [target EXCEPT ![r] = 0]
    /\ disturbed' = disturbed \cup {r}
    /\ UNCHANGED <<thread, nextId, page, outcome, began, solo>>

(* The run returns; its locals are gone. *)
EndUpsert(r, o) ==
    /\ pc' = [pc EXCEPT ![r] = "done"]
    /\ outcome' = [outcome EXCEPT ![r] = o]
    /\ page' = [page EXCEPT ![r] = 1]
    /\ target' = [target EXCEPT ![r] = 0]
    /\ solo' = solo \ {r}

(* It created no comment: how it went is of no more interest. *)
Forget(r) ==
    /\ began' = [began EXCEPT ![r] = 0]
    /\ disturbed' = disturbed \ {r}

(* Mutation: the answer to the PATCH is not looked at. *)
Patch_Unchecked(r) ==
    /\ pc[r] = "patch"
    /\ thread' = [i \in 1..Len(thread) |->
                    IF thread[i].id = target[r]
                      THEN [thread[i] EXCEPT !.body = r] ELSE thread[i]]
    /\ EndUpsert(r, "updated")
    /\ Forget(r)
    /\ UNCHANGED nextId

(* PATCH by id: 404 when the comment has been deleted in between. *)
Patch(r) ==
    /\ pc[r] = "patch"
    /\ IF target[r] \in Ids
         THEN /\ thread' = [i \in 1..Len(thread) |->
                              IF thread[i].id = target[r]
                                THEN [thread[i] EXCEPT !.body = r]
                                ELSE thread[i]]
              /\ EndUpsert(r, "updated")
         ELSE /\ EndUpsert(r, "error")
              /\ UNCHANGED thread
    /\ Forget(r)
    /\ UNCHANGED nextId

(* POST; `acked` is whether the run learns that it succeeded. *)
Post(r, acked) ==
    /\ pc[r] = "post"
    /\ nextId <= MaxComments
    /\ thread' = Append(thread, [id |-> nextId, body |-> r, creator |-> r])
    /\ nextId' = nextId + 1
    /\ EndUpsert(r, IF acked THEN "created" ELSE "error")
    /\ UNCHANGED <<began, disturbed>>

(* A call fails (403, 5xx, no network) before GitHub applied it.  A run    *)
(* that finds no pull request never begins.                                *)
CallFails(r) ==
    /\ pc[r] \in Active
    /\ EndUpsert(r, "error")
    /\ Forget(r)
    /\ UNCHANGED <<thread, nextId>>

(* People. *)
HumanComments ==
    /\ nextId <= MaxComments
    /\ thread' = Append(thread, [id |-> nextId, body |-> Human, creator |-> Human])
    /\ nextId' = nextId + 1
    /\ UNCHANGED <<pc, page, target, outcome, began, solo, disturbed>>

HumanDeletes(i) ==
    /\ thread' = RemoveAt(thread, i)
    /\ disturbed' = disturbed \cup {r \in Runs : pc[r] \in Listing}
    /\ UNCHANGED <<nextId, pc, page, target, outcome, began, solo>>

RunStep(r) ==
    \/ BeginUpsert(r) \/ ListPage(r) \/ GarbledListing(r) \/ Patch(r) \/ CallFails(r)
    \/ \E acked \in BOOLEAN : Post(r, acked)

HumanStep == HumanComments \/ \E i \in 1..Len(thread) : HumanDeletes(i)

CommentNext == HumanStep \/ \E r \in Runs : RunStep(r)

CommentSpec == CommentInit /\ [][CommentNext]_commentVars

-----------------------------------------------------------------------------
(* SPEC-0064 R3, "never a second marker comment", as far as the code can   *)
(* keep it: a second receipt comment is only ever created by a run whose   *)
(* listing began before the first one existed, or whose pages shifted      *)
(* under it because somebody deleted a comment meanwhile, or whose `gh`    *)
(* printed something that could not be read.                               *)
DuplicatesNeedARace ==
    \A i, j \in Markers : i < j =>
        LET late == thread[j].creator
        IN thread[i].id >= began[late] \/ late \in disturbed

(* A run that reports success without having overlapped another run, on a  *)
(* thread it could read and nobody deleted from meanwhile, has its receipt *)
(* in the first receipt comment at that moment: the one the CI check and   *)
(* the next run will look at.                                              *)
SoloSuccess ==
    \A r \in Runs :
        /\ outcome[r] = None /\ outcome'[r] \in {"created", "updated"}
        /\ r \in solo /\ r \notin disturbed
        => Markers' # {} /\ thread'[FirstMarker'].body = r
SoloRunIsCurrent == [][SoloSuccess]_commentVars
================================================================================
