---- MODULE UploadMigration ----
(***************************************************************************)
(* The migration of local upload URLs to cloud storage                     *)
(* (app/services/upload_migration.py, scripts/migrate_upload_assets.py).   *)
(* An operator applies it in batches: a run scans every reference that is  *)
(* a local URL, takes a page of the list, and for each copies the file and *)
(* commits the new URL.  It ends with a list of files no reference needs   *)
(* any more, which the operator may delete, and with the offset of the     *)
(* next batch.  Owners use the product meanwhile.                          *)
(*                                                                         *)
(* References are numbered in the order a scan lists them, so that a page  *)
(* of the list is a set and its next candidate the least of it.  Only URLs *)
(* of uploads are modelled, and only runs that change something.           *)
(***************************************************************************)
EXTENDS Integers, FiniteSets

CONSTANTS Assets, Posts, Attachments,  \* the references, by their source
          Files,
          Limit,      \* --limit of a batch
          MaxRuns,    \* bound: batches
          MaxEdits,   \* bound: what owners change
          MaxFaults   \* bound: copies that fail, runs that crash

Refs == Assets \cup Posts \cup Attachments
Sources == {"upload_asset", "post", "billing_attachment"}
RefsOf(source) == CASE source = "upload_asset" -> Assets
                    [] source = "post" -> Posts
                    [] source = "billing_attachment" -> Attachments

\* What is assumed of the constants; the modules that instantiate this one state it.
UploadMigrationAssumption ==
    /\ Refs \subseteq Nat /\ IsFiniteSet(Refs)
    /\ \A a \in Assets, p \in Posts : a < p
    /\ \A r \in Assets \cup Posts, t \in Attachments : r < t
    /\ Limit \in Nat \ {0}
    /\ MaxRuns \in Nat /\ MaxEdits \in Nat /\ MaxFaults \in Nat

VARIABLES
    url,       \* of each reference
    disk,      \* files in the upload directory
    cloud,     \* files in the bucket
    run,       \* the run in progress
    next,      \* for each source: next_offset of its last batch, 0 if there is none
    cleanup,   \* the files the last batch listed
    lost,      \* history: files deleted by their owner, or set to a post since the list
    sinceList, \* history: posts set since the list was made
    edited,    \* history: posts set at all
    done,      \* history: sources whose last batch left nothing out and has no next
    paged,     \* history: sources with a batch that did not start at 0
    runs, edits, faults  \* bounds

bounds == <<runs, edits, faults>>
vars == <<url, disk, cloud, run, next, cleanup, lost, sinceList, edited, done, paged, bounds>>

NoUrl == [at |-> "none", file |-> "none"]
Local(f) == [at |-> "local", file |-> f]
Cloud(f) == [at |-> "cloud", file |-> f]
Urls == {NoUrl} \cup {Local(f) : f \in Files} \cup {Cloud(f) : f \in Files}
IsLocal(r) == url[r].at = "local"

\* scan_candidates, and how many it lists before a reference
Scan(refs) == {r \in refs : IsLocal(r)}
Place(r, list) == Cardinality({q \in list : q < r})

Idle == [pc |-> "idle", source |-> "none", offset |-> 0, matching |-> 0, page |-> {},
         taken |-> {}, migrated |-> {}]
Candidate == CHOOSE c \in run.page : \A d \in run.page : c.ref <= d.ref

Init ==
    /\ url \in [Refs -> {Local(f) : f \in Files}]
    /\ disk \in {Files} \cup {Files \ {f} : f \in Files}
    /\ cloud = {}
    /\ run = Idle
    /\ next = [s \in Sources |-> 0]
    /\ cleanup = {}
    /\ lost = Files \ disk
    /\ sinceList = {} /\ edited = {} /\ done = {} /\ paged = {}
    /\ runs = 0 /\ edits = 0 /\ faults = 0

-----------------------------------------------------------------------------
(* run(apply=True) *)

StartRun(source, offset) ==
    LET all == Scan(RefsOf(source))
        page == {r \in all : Place(r, all) \in offset .. offset + Limit - 1}
    IN
    /\ run = Idle
    /\ runs < MaxRuns
    /\ runs' = runs + 1
    /\ run' = [pc |-> "migrating", source |-> source, offset |-> offset,
               matching |-> Cardinality(all), taken |-> page, migrated |-> {},
               page |-> {[ref |-> r, file |-> url[r].file] : r \in page}]
    /\ done' = done \ {source}
    /\ paged' = IF offset > 0 THEN paged \cup {source} ELSE paged
    /\ UNCHANGED <<url, disk, cloud, next, cleanup, lost, sinceList, edited, edits, faults>>

\* The batch that has_more of the last one asks for
StartNext(source) == next[source] > 0 /\ StartRun(source, next[source])

\* migrate_candidate, up to the copy in the bucket
Copy ==
    /\ run.pc = "migrating" /\ run.page # {}
    /\ Candidate.file \in disk
    /\ cloud' = cloud \cup {Candidate.file}
    /\ run' = [run EXCEPT !.pc = "copied"]
    /\ UNCHANGED <<url, disk, next, cleanup, lost, sinceList, edited, done, paged, bounds>>

\* missing_local_file
Missing ==
    /\ run.pc = "migrating" /\ run.page # {}
    /\ Candidate.file \notin disk
    /\ run' = [run EXCEPT !.page = @ \ {Candidate}]
    /\ UNCHANGED <<url, disk, cloud, next, cleanup, lost, sinceList, edited, done, paged, bounds>>

\* error
CopyFails ==
    /\ faults < MaxFaults
    /\ faults' = faults + 1
    /\ run.pc = "migrating" /\ run.page # {}
    /\ Candidate.file \in disk
    /\ run' = [run EXCEPT !.page = @ \ {Candidate}]
    /\ UNCHANGED <<url, disk, cloud, next, cleanup, lost, sinceList, edited, done, paged, runs, edits>>

\* _apply_upload_asset, _apply_post and _apply_billing_attachment: a row that is gone
\* is an error; a post's URL is replaced whatever it is by now.
StoreReference ==
    LET r == Candidate.ref IN
    /\ run.pc = "copied"
    /\ IF r \in Assets /\ url[r] = NoUrl
       THEN /\ run' = [run EXCEPT !.pc = "migrating", !.page = @ \ {Candidate}]
            /\ UNCHANGED url
       ELSE /\ url' = [url EXCEPT ![r] = Cloud(Candidate.file)]
            /\ run' = [run EXCEPT !.pc = "migrating", !.page = @ \ {Candidate},
                                  !.migrated = @ \cup {Candidate}]
    /\ UNCHANGED <<disk, cloud, next, cleanup, lost, sinceList, edited, done, paged, bounds>>

\* Mutant: the references of the batch's own source are looked at.
CleanupOfSource ==
    {c.file : c \in run.migrated} \ {url[r].file : r \in Scan(RefsOf(run.source))}

\* _build_cleanup_candidates: a scan of all the sources
Cleanup ==
    {c.file : c \in run.migrated} \ {url[r].file : r \in Scan(Refs)}

\* has_more, next_offset and the verification
Finish ==
    LET consumed == run.offset + Cardinality(run.taken)
        more == consumed < run.matching
    IN
    /\ run.pc = "migrating" /\ run.page = {}
    /\ next' = [next EXCEPT ![run.source] = IF more THEN consumed ELSE 0]
    /\ cleanup' = Cleanup
    /\ sinceList' = {}
    /\ done' = IF more \/ {c.ref : c \in run.migrated} # run.taken
                       \/ \E r \in run.taken : IsLocal(r)
               THEN done ELSE done \cup {run.source}
    /\ run' = Idle
    /\ UNCHANGED <<url, disk, cloud, lost, edited, paged, bounds>>

\* Every reference stored so far stays stored.
Crash ==
    /\ faults < MaxFaults
    /\ faults' = faults + 1
    /\ run # Idle
    /\ run' = Idle
    /\ UNCHANGED <<url, disk, cloud, next, cleanup, lost, sinceList, edited, done, paged, runs, edits>>

-----------------------------------------------------------------------------
(* The operator and the owners. *)

\* The operator deletes what the list names.
DeleteListed ==
    /\ run = Idle
    /\ cleanup \cap disk # {}
    /\ disk' = disk \ cleanup
    /\ lost' = lost \cup {f \in cleanup : \E p \in sinceList : url[p] = Local(f)}
    /\ UNCHANGED <<url, cloud, run, next, cleanup, sinceList, edited, done, paged, bounds>>

\* PUT /posts/{id}: a URL the owner has seen of a file that is there
SetPost(p, u) ==
    /\ edits < MaxEdits
    /\ edits' = edits + 1
    /\ u = NoUrl \/ (u.at = "local" /\ u.file \in disk) \/ (u.at = "cloud" /\ u.file \in cloud)
    /\ url' = [url EXCEPT ![p] = u]
    /\ sinceList' = sinceList \cup {p}
    /\ edited' = edited \cup {p}
    /\ UNCHANGED <<disk, cloud, run, next, cleanup, lost, done, paged, runs, faults>>

\* delete_file: the row, and the file: the bucket's if it has one, or the local one
DeleteAsset(a) ==
    LET f == url[a].file IN
    /\ edits < MaxEdits
    /\ edits' = edits + 1
    /\ url[a] # NoUrl /\ f \in disk \cup cloud
    /\ url' = [url EXCEPT ![a] = NoUrl]
    /\ IF f \in cloud THEN cloud' = cloud \ {f} /\ UNCHANGED disk
       ELSE disk' = disk \ {f} /\ UNCHANGED cloud
    /\ lost' = lost \cup {f}
    /\ UNCHANGED <<run, next, cleanup, sinceList, edited, done, paged, runs, faults>>

Next ==
    \/ \E s \in Sources : StartRun(s, 0)
    \/ \E s \in Sources : StartNext(s)
    \/ Copy \/ Missing \/ CopyFails \/ StoreReference \/ Finish \/ Crash
    \/ DeleteListed
    \/ \E p \in Posts, u \in Urls : SetPost(p, u)
    \/ \E a \in Assets : DeleteAsset(a)

Spec == Init /\ [][Next]_vars

-----------------------------------------------------------------------------
TypeOK ==
    /\ url \in [Refs -> Urls]
    /\ disk \subseteq Files /\ cloud \subseteq Files /\ cleanup \subseteq Files
    /\ run.pc \in {"idle", "migrating", "copied"}
    /\ run.taken \subseteq Refs
    /\ done \subseteq Sources /\ paged \subseteq Sources

\* No reference of any source, migrated or not, ever names a file that is gone, at
\* whatever point runs fail or crash and the operator deletes the files a list calls
\* safe to delete; except files their owner deleted, and posts set after the list.
ReferencesStayReachable ==
    \A r \in Refs :
        /\ IsLocal(r) => url[r].file \in disk \cup lost
        /\ url[r].at = "cloud" => url[r].file \in cloud \cup lost

\* The batch of a source that leaves nothing out and announces no next one is the last:
\* no local URL of the source is left, whatever happened during the batches, except
\* in posts their owner has set; provided that every batch started at offset 0.
LastBatchIsLast ==
    \A s \in done \ paged : \A r \in RefsOf(s) \ edited : ~IsLocal(r)

\* The same, if a batch starts at the next_offset of the one before, as the runbook and
\* next_apply_command say.
NextOffsetFinishes ==
    \A s \in done : \A r \in RefsOf(s) \ edited : ~IsLocal(r)
====
