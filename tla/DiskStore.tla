----------------------------- MODULE DiskStore -----------------------------
(***************************************************************************)
(* The disk store (server/disk_store.hpp): directories of entry files under *)
(* one root, a directory a server with its lock, the I/O thread that writes,*)
(* reads and claims entries, the start that adopts what ended servers left  *)
(* and the sweep that removes it.  A server is one instance: its directory  *)
(* is new, and it is killed, loses its power or exits once.                 *)
(*                                                                          *)
(* An entry is named by its content, so a file is a directory and an entry; *)
(* its header is the build its identity field says and the build its        *)
(* checksum is over, whole where they agree.  `disk` is what a power loss   *)
(* leaves of a header: a rename before its directory's sync and a rewrite   *)
(* before its file's.  Other renames and removals are taken as a journalled *)
(* file system keeps them, in order.                                        *)
(***************************************************************************)
EXTENDS Integers, FiniteSets, SequencesExt

CONSTANTS
    Instances, Nobody,   \* servers, each with the directory of its name
    Entries,             \* contents an entry may hold
    Builds, NoBuild,     \* builds, whose identities differ in their build's lines alone
    Configs,             \* the options each server may start with: [build, keep, proved]
    MaxJobs,             \* bound: jobs queued at a store
    Eras                 \* bound: the sets of servers that may be alive at once, one after the other

ASSUME DiskStoreAssumption ==
    /\ Nobody \notin Instances /\ NoBuild \notin Builds /\ Entries # {}
    /\ Configs \in [Instances -> (SUBSET [build : Builds, keep : BOOLEAN, proved : BOOLEAN]) \ {{}}]
    /\ MaxJobs \in Nat \ {0} /\ Eras \in Seq(SUBSET Instances)

VARIABLES
    dir,                      \* each directory, its lock and its identity
    kv, from,                 \* the headers of its entry files and the identities beside them, as a process reads them
    disk,                     \* each entry file's header as a power loss would leave it
    srv,                      \* each server's place and options
    sizes, foreign, claimed,  \* sizes_ and the builds of the entries adopted from others (foreign_), and the entries a proof has claimed
    jobs, put, read,          \* the I/O thread's queue, the write and the read or claim in progress
    stream,                   \* a streamed read being opened by a reader's thread
    look,                     \* a sweep, the directory it is at and what it has met there
    proved,                   \* ghost: the builds an entry is that build's bytes for, its writer's and those whose proof claimed it
    weak                      \* ghost: the entries a claim of which was rewritten whole and did not reach the disk

files == <<kv, from, disk>>
store == <<sizes, foreign, claimed>>
io == <<jobs, put, read>>
ghosts == <<proved, weak>>
vars == <<dir, files, srv, store, io, stream, look, ghosts>>

Build == Builds \cup {NoBuild}
Config == [build : Builds, keep : BOOLEAN, proved : BOOLEAN]
Header == [f : Build, s : Build]                 \* identity field, checksum's identity
NoFile == [f |-> NoBuild, s |-> NoBuild]
WholeFor(b) == [f |-> b, s |-> b]
Job == [kind : {"put", "get", "claim"}, e : Entries, cancelled : BOOLEAN]
Directory == [there : BOOLEAN, lock : Instances \cup {Nobody}, kept : BOOLEAN, old : BOOLEAN, id : Build, tmp : SUBSET Entries]
Server == [pc : {"off", "made", "locked", "run", "stopping", "removing", "ended"}, cfg : Config]
Write == [at : {"none", "tmp", "synced", "renamed"}, job : Job]
Read == [at : {"none", "check", "field", "sum", "sync", "beside", "settle"}, job : Job, theirs : Build]
Stream == [on : BOOLEAN, e : Entries, id : Build]
Look == [sweep : {"no", "start", "idle"}, left : SUBSET Instances, at : Instances \cup {Nobody},
         phase : {"adopt", "move", "beside", "remove"}, todo : SUBSET Entries, mv : Entries, as : Build,
         retain : BOOLEAN, refused : BOOLEAN, took : BOOLEAN, unread : SUBSET Entries]   \* unread, a ghost: taken entries whose header it failed to read

\* Directories, headers and servers have their types.
TypeOK ==
    /\ dir \in [Instances -> Directory] /\ kv \in [Instances -> [Entries -> Header]]
    /\ from \in [Instances -> [Entries -> Build]] /\ disk \in [Instances -> [Entries -> Header]]
    /\ srv \in [Instances -> Server]
    /\ sizes \in [Instances -> SUBSET Entries] /\ foreign \in [Instances -> [Entries -> Build]] /\ claimed \in [Instances -> SUBSET Entries]
    /\ jobs \in [Instances -> Seq(Job)] /\ \A i \in Instances : Len(jobs[i]) <= MaxJobs
    /\ put \in [Instances -> Write] /\ read \in [Instances -> Read] /\ stream \in [Instances -> Stream] /\ look \in [Instances -> Look]
    /\ proved \in [Entries -> SUBSET Builds] /\ weak \subseteq Entries

SomeEntry == CHOOSE e \in Entries : TRUE
NoJob == [kind |-> "get", e |-> SomeEntry, cancelled |-> FALSE]
NoDirectory == [there |-> FALSE, lock |-> Nobody, kept |-> FALSE, old |-> FALSE, id |-> NoBuild, tmp |-> {}]
NoWrite == [at |-> "none", job |-> NoJob]
NoRead == [at |-> "none", job |-> NoJob, theirs |-> NoBuild]
NoStream == [on |-> FALSE, e |-> SomeEntry, id |-> NoBuild]
NoLook == [sweep |-> "no", left |-> {}, at |-> Nobody, phase |-> "adopt", todo |-> {}, mv |-> SomeEntry, as |-> NoBuild,
           retain |-> FALSE, refused |-> FALSE, took |-> FALSE, unread |-> {}]
NoFiles == [e \in Entries |-> NoFile]
Unmarked == [e \in Entries |-> NoBuild]

Init ==
    /\ dir = [d \in Instances |-> NoDirectory]
    /\ kv = [d \in Instances |-> NoFiles] /\ from = [d \in Instances |-> Unmarked] /\ disk = [d \in Instances |-> NoFiles]
    /\ srv = [i \in Instances |-> [pc |-> "off", cfg |-> CHOOSE c \in Configs[i] : TRUE]]
    /\ sizes = [i \in Instances |-> {}] /\ foreign = [i \in Instances |-> Unmarked] /\ claimed = [i \in Instances |-> {}]
    /\ jobs = [i \in Instances |-> <<>>] /\ put = [i \in Instances |-> NoWrite] /\ read = [i \in Instances |-> NoRead]
    /\ stream = [i \in Instances |-> NoStream] /\ look = [i \in Instances |-> NoLook]
    /\ proved = [e \in Entries |-> {}] /\ weak = {}

-----------------------------------------------------------------------------
Directories == {d \in Instances : dir[d].there}
Mine(i) == srv[i].cfg.build
Live(i) == srv[i].pc \notin {"off", "ended"}
Serving(i) == srv[i].pc \in {"run", "stopping"}
WrittenAs(i, e) == IF foreign[i][e] = NoBuild THEN Mine(i) ELSE foreign[i][e]
Goes(i, pc) == srv' = [srv EXCEPT ![i].pc = pc]

\* Entry e's file and the identity beside it gone from directory d, all of them, or none.
Removed(d, e) ==
    /\ kv' = [kv EXCEPT ![d][e] = NoFile] /\ from' = [from EXCEPT ![d][e] = NoBuild]
    /\ disk' = [disk EXCEPT ![d][e] = NoFile]
RemovedAll(d) ==
    /\ dir' = [dir EXCEPT ![d] = [NoDirectory EXCEPT !.lock = dir[d].lock]]
    /\ kv' = [kv EXCEPT ![d] = NoFiles] /\ from' = [from EXCEPT ![d] = Unmarked] /\ disk' = [disk EXCEPT ![d] = NoFiles]
\* What drop_entry, an evict and a failed read do under the store's mutex.
Forgotten(i, e) == sizes' = [sizes EXCEPT ![i] = @ \ {e}] /\ foreign' = [foreign EXCEPT ![i][e] = NoBuild]
\* A server's end, which leaves nothing of what it held in memory.
Memory(I) ==
    /\ sizes' = [i \in Instances |-> IF i \in I THEN {} ELSE sizes[i]]
    /\ foreign' = [i \in Instances |-> IF i \in I THEN Unmarked ELSE foreign[i]]
    /\ claimed' = [i \in Instances |-> IF i \in I THEN {} ELSE claimed[i]]
    /\ jobs' = [i \in Instances |-> IF i \in I THEN <<>> ELSE jobs[i]]
    /\ put' = [i \in Instances |-> IF i \in I THEN NoWrite ELSE put[i]]
    /\ read' = [i \in Instances |-> IF i \in I THEN NoRead ELSE read[i]]
    /\ stream' = [i \in Instances |-> IF i \in I THEN NoStream ELSE stream[i]]
    /\ look' = [i \in Instances |-> IF i \in I THEN NoLook ELSE look[i]]

-----------------------------------------------------------------------------
\* The start: a directory of its own, its lock, its identity, then the sweep.
MakeDirectory(i) ==
    /\ srv[i].pc = "off"
    /\ \E n \in DOMAIN Eras : i \in Eras[n] /\ \A m \in 1 .. n - 1 : \A k \in Eras[m] : srv[k].pc = "ended"
    /\ \E c \in Configs[i] : srv' = [srv EXCEPT ![i] = [pc |-> "made", cfg |-> c]]
    /\ dir' = [dir EXCEPT ![i].there = TRUE]
    /\ UNCHANGED <<files, store, io, stream, look, ghosts>>

\* A lock another server's sweep holds, or a directory it removed, ends the start with a throw.
TakeLock(i) ==
    /\ srv[i].pc = "made" /\ dir[i].there /\ dir[i].lock = Nobody
    /\ dir' = [dir EXCEPT ![i].lock = i] /\ Goes(i, "locked")
    /\ UNCHANGED <<files, store, io, stream, look, ghosts>>
LockRefused(i) ==
    /\ srv[i].pc = "made" /\ (~dir[i].there \/ dir[i].lock # Nobody)
    /\ Goes(i, "ended")
    /\ UNCHANGED <<dir, files, store, io, stream, look, ghosts>>

Begins(i, kind) == look' = [look EXCEPT ![i] = [look[i] EXCEPT !.sweep = kind, !.left = Directories \ {i}]]
KeepIdentity(i) ==
    /\ srv[i].pc = "locked" /\ look[i].sweep = "no"
    /\ dir' = [dir EXCEPT ![i].id = IF dir[i].there THEN Mine(i) ELSE @]
    /\ Begins(i, "start")
    /\ UNCHANGED <<files, srv, store, io, stream, ghosts>>

Adopts(i) == look[i].sweep = "start" /\ srv[i].cfg.keep
Files(d) == {e \in Entries : kv[d][e] # NoFile}

\* sweep's next directory: passed over where it is gone or its lock is held, a live server's.
SweepsOn(i, d) == look[i].sweep # "no" /\ look[i].at = Nobody /\ d \in look[i].left
SweepNext(i, d) ==
    /\ SweepsOn(i, d) /\ dir[d].there /\ dir[d].lock = Nobody
    /\ dir' = [dir EXCEPT ![d].lock = i]
    /\ look' = [look EXCEPT ![i] = [look[i] EXCEPT !.left = @ \ {d}, !.at = d, !.todo = IF Adopts(i) THEN Files(d) ELSE {},
                            !.refused = Adopts(i) /\ dir[d].id = NoBuild /\ Files(d) # {}]]
    /\ UNCHANGED <<files, srv, store, io, stream, ghosts>>
SweepPasses(i, d) ==
    /\ SweepsOn(i, d) /\ (~dir[d].there \/ dir[d].lock # Nobody)
    /\ look' = [look EXCEPT ![i].left = @ \ {d}]
    /\ UNCHANGED <<dir, files, srv, store, io, stream, ghosts>>
SweepEnd(i) ==
    /\ look[i].sweep # "no" /\ look[i].at = Nobody /\ look[i].left = {}
    /\ look' = [look EXCEPT ![i].sweep = "no"]
    /\ Goes(i, IF srv[i].pc = "locked" THEN "run" ELSE srv[i].pc)
    /\ UNCHANGED <<dir, files, store, io, stream, ghosts>>

\* Which of two identities a header is whole under by its checksum, whatever its field.
Bad_Owner(h, first, second) == IF h.s \in {first, second} THEN second ELSE NoBuild
Owner(h, first, second) == IF h.s \in {first, second} THEN h.s ELSE NoBuild

\* settle: a header put right, and on the disk where that changed it.
Settled(d, e, h) ==
    /\ kv' = [kv EXCEPT ![d][e] = h]
    /\ disk' = [disk EXCEPT ![d][e] = IF kv[d][e] = h THEN @ ELSE h]

\* adopt_from's look at entry e: which build wrote it, settled where a claim may have been cut short, and whether this server takes it.
Marked(d, e) == from[d][e] # NoBuild
Wrote(d, e) == IF Marked(d, e) THEN Owner(kv[d][e], from[d][e], dir[d].id) ELSE dir[d].id
Standing(d, e) == IF Marked(d, e) THEN WholeFor(Wrote(d, e)) ELSE kv[d][e]
TakenAs(i, d, e) == IF Wrote(d, e) = NoBuild THEN Mine(i) ELSE Wrote(d, e)     \* a directory without an identity: this store's, if its header says so
Looks(i, e) == look[i].at # Nobody /\ look[i].phase = "adopt" /\ e \in look[i].todo
Passes(i, e, failed, unread) ==
    look' = [look EXCEPT ![i] = [look[i] EXCEPT !.todo = @ \ {e}, !.retain = @ \/ failed, !.unread = @ \cup unread]]
\* Whole under neither build, its header not read or put right now, or the identity beside it not read, which counts as none.
AdoptLeaves(i, e) ==
    /\ Looks(i, e) /\ Marked(look[i].at, e)
    /\ \E failed \in BOOLEAN : (failed \/ kv[look[i].at][e].s # dir[look[i].at].id) /\ Passes(i, e, failed, {})
    /\ UNCHANGED <<dir, files, srv, store, io, stream, ghosts>>
Readable(d, e) == Marked(d, e) => Wrote(d, e) # NoBuild
\* Another build's or not whole under the build that wrote it, its header not read, which is not told from a bad one, or the
\* identity beside its new place not written, of which alone the directory's sweep learns.
AdoptPasses(i, e) ==
    LET d == look[i].at  as == TakenAs(i, d, e)
        policy == as = Mine(i) \/ srv[i].cfg.proved
        whole == Standing(d, e) = WholeFor(as)
    IN /\ Looks(i, e) /\ Readable(d, e)
       /\ Settled(d, e, Standing(d, e))
       /\ \/ ~(policy /\ whole) /\ Passes(i, e, FALSE, {})
          \/ policy /\ whole /\ Passes(i, e, FALSE, {e})
          \/ policy /\ whole /\ as # Mine(i) /\ Passes(i, e, TRUE, {})
       /\ UNCHANGED <<dir, from, srv, store, io, stream, ghosts>>
AdoptTakes(i, e) ==
    LET d == look[i].at  as == TakenAs(i, d, e)
    IN /\ Looks(i, e) /\ Readable(d, e)
       /\ as = Mine(i) \/ (srv[i].cfg.proved /\ dir[i].there)
       /\ Standing(d, e) = WholeFor(as)
       /\ Settled(d, e, WholeFor(as))
       /\ from' = [from EXCEPT ![i][e] = IF as = Mine(i) THEN @ ELSE as]
       /\ look' = [look EXCEPT ![i] = [look[i] EXCEPT !.phase = "move", !.mv = e, !.as = as]]
       /\ UNCHANGED <<dir, srv, store, io, stream, ghosts>>

\* The entry renamed into this server's directory, or, where that fails, left with the identity beside its new place removed.
AdoptMove(i) ==
    LET d == look[i].at  e == look[i].mv  as == look[i].as
        next == IF from[d][e] = NoBuild THEN "adopt" ELSE "beside"
    IN /\ d # Nobody /\ look[i].phase = "move" /\ dir[i].there /\ kv[d][e] # NoFile
       /\ kv' = [kv EXCEPT ![i][e] = kv[d][e], ![d][e] = NoFile]
       /\ disk' = [disk EXCEPT ![i][e] = disk[d][e], ![d][e] = NoFile]
       /\ look' = [look EXCEPT ![i] = [look[i] EXCEPT !.phase = next, !.todo = IF next = "adopt" THEN @ \ {e} ELSE @, !.took = @ \/ as # Mine(i)]]
       /\ sizes' = [sizes EXCEPT ![i] = @ \cup {e}]
       /\ foreign' = [foreign EXCEPT ![i][e] = IF as = Mine(i) THEN NoBuild ELSE as]
       /\ UNCHANGED <<dir, from, srv, claimed, io, stream, ghosts>>
AdoptMoveFails(i) ==
    /\ look[i].at # Nobody /\ look[i].phase = "move"
    /\ from' = [from EXCEPT ![i][look[i].mv] = NoBuild]
    /\ look' = [look EXCEPT ![i] = [look[i] EXCEPT !.phase = "adopt", !.todo = @ \ {look[i].mv}, !.retain = TRUE]]
    /\ UNCHANGED <<dir, kv, disk, srv, store, io, stream, ghosts>>

AdoptBeside(i) ==
    /\ look[i].at # Nobody /\ look[i].phase = "beside"
    /\ from' = [from EXCEPT ![look[i].at][look[i].mv] = NoBuild]
    /\ look' = [look EXCEPT ![i] = [look[i] EXCEPT !.phase = "adopt", !.todo = @ \ {look[i].mv}]]
    /\ UNCHANGED <<dir, kv, disk, srv, store, io, stream, ghosts>>

\* The end of a directory's turn: left for a later start, or its lock let go ahead of its removal.
Bad_Spared(i, d) == dir[d].kept /\ ~dir[d].old /\ ~Adopts(i)
Spared(i, d) ==
    LET refused == look[i].refused \/ (dir[d].id \notin {NoBuild, Mine(i)} /\ ~look[i].took)
    IN /\ dir[d].kept /\ ~dir[d].old
       /\ Adopts(i) => (look[i].retain \/ refused)
LookEnded(l) == [NoLook EXCEPT !.sweep = l.sweep, !.left = l.left]
SweepDone(i) ==
    /\ look[i].at # Nobody /\ look[i].phase = "adopt" /\ look[i].todo = {}
    /\ dir' = [dir EXCEPT ![look[i].at].lock = IF @ = i THEN Nobody ELSE @]
SweepLeave(i) ==
    /\ SweepDone(i) /\ Spared(i, look[i].at)
    /\ look' = [look EXCEPT ![i] = LookEnded(look[i])]
    /\ UNCHANGED <<files, srv, store, io, stream, ghosts>>
SweepCondemn(i) ==
    /\ SweepDone(i) /\ ~Spared(i, look[i].at)
    /\ look' = [look EXCEPT ![i] = [LookEnded(look[i]) EXCEPT !.at = look[i].at, !.phase = "remove"]]
    /\ UNCHANGED <<files, srv, store, io, stream, ghosts>>
SweepRemove(i) ==
    /\ look[i].at # Nobody /\ look[i].phase = "remove"
    /\ RemovedAll(look[i].at)
    /\ look' = [look EXCEPT ![i] = LookEnded(look[i])]
    /\ UNCHANGED <<srv, store, io, stream, ghosts>>

-----------------------------------------------------------------------------
\* Calls on the store, from the tier's thread.
Queued(i, kind, e) == jobs' = [jobs EXCEPT ![i] = Append(@, [kind |-> kind, e |-> e, cancelled |-> FALSE])]
Bad_Calling(i) == srv[i].pc = "run"
Calling(i) == srv[i].pc = "run" /\ Len(jobs[i]) < MaxJobs

Put(i, e) ==
    /\ Calling(i) /\ proved[e] = {}
    /\ Queued(i, "put", e)
    /\ proved' = [proved EXCEPT ![e] = {Mine(i)}]
    /\ UNCHANGED <<dir, files, srv, store, put, read, stream, look, weak>>
Get(i, e) ==
    /\ Calling(i) /\ e \in sizes[i]
    /\ Queued(i, "get", e)
    /\ UNCHANGED <<dir, files, srv, store, put, read, stream, look, ghosts>>
\* A proof that held (DiskTier::compare), once an entry.
Claim(i, e) ==
    /\ Calling(i) /\ e \in sizes[i] \ claimed[i] /\ foreign[i][e] # NoBuild
    /\ Queued(i, "claim", e)
    /\ claimed' = [claimed EXCEPT ![i] = @ \cup {e}]
    /\ proved' = [proved EXCEPT ![e] = @ \cup {Mine(i)}]
    /\ UNCHANGED <<dir, files, srv, sizes, foreign, put, read, stream, look, weak>>

IsPut(j, e) == j.kind = "put" /\ j.e = e
Puts(i, e) == (\E k \in DOMAIN jobs[i] : IsPut(jobs[i][k], e)) \/ (put[i].at # "none" /\ put[i].job.e = e)
Cancelled(i, e) ==
    /\ jobs' = [jobs EXCEPT ![i] = [k \in DOMAIN @ |-> IF IsPut(jobs[i][k], e) THEN [jobs[i][k] EXCEPT !.cancelled = TRUE] ELSE jobs[i][k]]]
    /\ put' = [put EXCEPT ![i].job.cancelled = @ \/ (put[i].at # "none" /\ put[i].job.e = e)]
Cancel(i, e) ==
    /\ srv[i].pc = "run" /\ Puts(i, e)
    /\ Cancelled(i, e)
    /\ UNCHANGED <<dir, files, srv, store, read, stream, look, ghosts>>
\* Of an entry that is not there, an evict is a cancel.
Evict(i, e) ==
    /\ srv[i].pc = "run" /\ e \in sizes[i]
    /\ Cancelled(i, e) /\ Forgotten(i, e) /\ Removed(i, e)
    /\ UNCHANGED <<dir, srv, claimed, read, stream, look, ghosts>>

\* A streamed read opens its file on a reader's thread: the identity it must carry is looked up, then its header read,
\* and an entry it found bad goes (end_stream's drop_entry).
OpenEntry(i, e) ==
    /\ srv[i].pc = "run" /\ ~stream[i].on
    /\ e \in sizes[i] /\ (foreign[i][e] = NoBuild \/ e \in claimed[i])
    /\ stream' = [stream EXCEPT ![i] = [on |-> TRUE, e |-> e, id |-> WrittenAs(i, e)]]
    /\ UNCHANGED <<dir, files, srv, store, io, look, ghosts>>
OpenEnds(i) == stream[i].on /\ Serving(i) /\ stream' = [stream EXCEPT ![i] = NoStream]
OpenWhole(i) ==
    /\ OpenEnds(i) /\ kv[i][stream[i].e] = WholeFor(stream[i].id)
    /\ UNCHANGED <<dir, files, srv, store, io, look, ghosts>>
OpenBad(i) ==
    /\ OpenEnds(i) /\ kv[i][stream[i].e] # WholeFor(stream[i].id)
    /\ Forgotten(i, stream[i].e) /\ Removed(i, stream[i].e)
    /\ UNCHANGED <<dir, srv, claimed, io, look, ghosts>>

-----------------------------------------------------------------------------
\* The I/O thread: reads and claims before writes, and between two chunks of one.
Idle(i) == Serving(i) /\ look[i].sweep = "no" /\ read[i].at = "none"
Reads(i) == {k \in DOMAIN jobs[i] : jobs[i][k].kind # "put"}
FirstRead(i) == CHOOSE k \in Reads(i) : \A l \in Reads(i) : k <= l
ReadAt(i, at) == read' = [read EXCEPT ![i].at = at]
ReadEnds(i) == read' = [read EXCEPT ![i] = NoRead]
WriteEnds(i) == put' = [put EXCEPT ![i] = NoWrite]

TakeRead(i) ==
    /\ Idle(i) /\ put[i].at \in {"none", "tmp"} /\ Reads(i) # {}
    /\ LET k == FirstRead(i)  j == jobs[i][k]
       IN /\ jobs' = [jobs EXCEPT ![i] = RemoveAt(@, k)]
          /\ read' = [read EXCEPT ![i] = IF j.e \in sizes[i] THEN [at |-> "check", job |-> j, theirs |-> NoBuild] ELSE @]
    /\ UNCHANGED <<dir, files, srv, store, put, stream, look, ghosts>>

\* An entry a read found bad, or a claim whole under neither build, is deleted.
Dropped(i, e) == ReadEnds(i) /\ Forgotten(i, e) /\ Removed(i, e)

\* The header and a read's chunks checked, any of which may fail to read; a claim of an entry already its own has nothing to do.
ReadBad(i) ==
    /\ read[i].at = "check" /\ Serving(i)
    /\ Dropped(i, read[i].job.e)
    /\ UNCHANGED <<dir, srv, claimed, jobs, put, stream, look, ghosts>>
Checked(i) == read[i].at = "check" /\ Serving(i) /\ kv[i][read[i].job.e] = WholeFor(WrittenAs(i, read[i].job.e))
ToClaim(i) == read[i].job.kind = "claim" /\ foreign[i][read[i].job.e] # NoBuild
ReadWhole(i) ==
    /\ Checked(i) /\ ~ToClaim(i)
    /\ ReadEnds(i)
    /\ UNCHANGED <<dir, files, srv, store, jobs, put, stream, look, ghosts>>
ClaimBegins(i) ==
    /\ Checked(i) /\ ToClaim(i)
    /\ read' = [read EXCEPT ![i] = [read[i] EXCEPT !.at = "field", !.theirs = foreign[i][read[i].job.e]]]
    /\ UNCHANGED <<dir, files, srv, store, jobs, put, stream, look, ghosts>>

\* A claim rewrites the header in place, its field ahead of its checksum, has it reach the disk, and removes the identity beside it last.
Rewriting(i, at) == read[i].at = at /\ Serving(i)
RewriteField(i) ==
    LET e == read[i].job.e
    IN /\ Rewriting(i, "field") /\ kv[i][e].f = read[i].theirs
       /\ kv' = [kv EXCEPT ![i][e].f = Mine(i)]
       /\ ReadAt(i, "sum")
       /\ UNCHANGED <<dir, from, disk, srv, store, jobs, put, stream, look, ghosts>>
RewriteSum(i) ==
    LET e == read[i].job.e
    IN /\ Rewriting(i, "sum")
       /\ kv' = [kv EXCEPT ![i][e] = IF @ = NoFile THEN @ ELSE WholeFor(Mine(i))]
       /\ ReadAt(i, "sync")
       /\ UNCHANGED <<dir, from, disk, srv, store, jobs, put, stream, look, ghosts>>
Bad_RewriteSync(i) ==
    /\ Rewriting(i, "sync")
    /\ ReadAt(i, "beside")
    /\ UNCHANGED <<dir, files, srv, store, jobs, put, stream, look, ghosts>>
RewriteSync(i) ==
    LET e == read[i].job.e
    IN /\ Rewriting(i, "sync")
       /\ disk' = [disk EXCEPT ![i][e] = kv[i][e]]
       /\ ReadAt(i, "beside")
       /\ UNCHANGED <<dir, kv, from, srv, store, jobs, put, stream, look, ghosts>>
RewriteFails(i) ==
    /\ Serving(i) /\ read[i].at \in {"field", "sum", "sync"}
    /\ ReadAt(i, "settle")
    /\ weak' = IF read[i].at = "sync" THEN weak \cup {read[i].job.e} ELSE weak
    /\ UNCHANGED <<dir, files, srv, store, jobs, put, stream, look, proved>>
RewriteBeside(i) ==
    LET e == read[i].job.e
    IN /\ Rewriting(i, "beside")
       /\ from' = [from EXCEPT ![i][e] = NoBuild] /\ foreign' = [foreign EXCEPT ![i][e] = NoBuild]
       /\ ReadEnds(i)
       /\ UNCHANGED <<dir, kv, disk, srv, sizes, claimed, jobs, put, stream, look, ghosts>>

\* A claim that did not reach the disk keeps the entry under the build its checksum is over, and deletes it only under neither.
SettleFails(i) ==
    /\ Rewriting(i, "settle")
    /\ ReadEnds(i)
    /\ UNCHANGED <<dir, files, srv, store, jobs, put, stream, look, ghosts>>
ClaimedBy(i) == Owner(kv[i][read[i].job.e], read[i].theirs, Mine(i))
ClaimLost(i) ==
    /\ Rewriting(i, "settle") /\ kv[i][read[i].job.e] # NoFile /\ ClaimedBy(i) = NoBuild
    /\ Dropped(i, read[i].job.e)
    /\ UNCHANGED <<dir, srv, claimed, jobs, put, stream, look, ghosts>>
ClaimKept(i) ==
    LET e == read[i].job.e
    IN /\ Rewriting(i, "settle") /\ kv[i][e] # NoFile /\ ClaimedBy(i) # NoBuild
       /\ Settled(i, e, WholeFor(ClaimedBy(i)))
       /\ foreign' = [foreign EXCEPT ![i][e] = IF ClaimedBy(i) = Mine(i) THEN NoBuild ELSE @]
       /\ ReadEnds(i)
       /\ UNCHANGED <<dir, from, srv, sizes, claimed, jobs, put, stream, look, ghosts>>
ClaimSettle(i) == Rewriting(i, "settle") /\ (ClaimLost(i) \/ ClaimKept(i))

Untemped(i, e) == dir' = [dir EXCEPT ![i].tmp = @ \ {e}]
ToPut(i) == Idle(i) /\ put[i].at = "none" /\ Reads(i) = {} /\ jobs[i] # <<>> /\ jobs' = [jobs EXCEPT ![i] = Tail(@)]
TakePut(i) ==
    /\ ToPut(i) /\ dir[i].there
    /\ put' = [put EXCEPT ![i] = [at |-> "tmp", job |-> Head(jobs[i])]]
    /\ dir' = [dir EXCEPT ![i].tmp = @ \cup {Head(jobs[i]).e}]
    /\ UNCHANGED <<files, srv, store, read, stream, look, ghosts>>
\* Below the free-space floor.
RefusePut(i) == ToPut(i) /\ UNCHANGED <<dir, files, srv, store, put, read, stream, look, ghosts>>
\* The chunks, the header, the file's sync and its rename; a cancel or a failure takes the temporary file with it.
PutWrite(i) ==
    /\ put[i].at = "tmp" /\ Idle(i) /\ ~put[i].job.cancelled /\ dir[i].there
    /\ put' = [put EXCEPT ![i].at = "synced"]
    /\ UNCHANGED <<dir, files, srv, store, jobs, read, stream, look, ghosts>>
PutRename(i) ==
    /\ put[i].at = "synced" /\ Idle(i) /\ ~put[i].job.cancelled /\ dir[i].there
    /\ kv' = [kv EXCEPT ![i][put[i].job.e] = WholeFor(Mine(i))]
    /\ put' = [put EXCEPT ![i].at = "renamed"]
    /\ Untemped(i, put[i].job.e)
    /\ UNCHANGED <<from, disk, srv, store, jobs, read, stream, look, ghosts>>
PutFails(i) ==
    /\ put[i].at \in {"tmp", "synced"} /\ Idle(i)
    /\ WriteEnds(i) /\ Untemped(i, put[i].job.e)
    /\ UNCHANGED <<files, srv, store, jobs, read, stream, look, ghosts>>
\* sync_directory, which reports no failure, and the last look at a cancel.
PutCommit(i) ==
    LET e == put[i].job.e
    IN /\ put[i].at = "renamed" /\ Idle(i) /\ ~put[i].job.cancelled
       /\ \E h \in {disk[i][e], kv[i][e]} : disk' = [disk EXCEPT ![i][e] = h]
       /\ sizes' = [sizes EXCEPT ![i] = @ \cup {e}]
       /\ WriteEnds(i)
       /\ UNCHANGED <<dir, kv, from, srv, foreign, claimed, jobs, read, stream, look, ghosts>>
Bad_PutCancelled(i) ==
    /\ put[i].at = "renamed" /\ Idle(i) /\ put[i].job.cancelled
    /\ WriteEnds(i)
    /\ UNCHANGED <<dir, files, srv, store, jobs, read, stream, look, ghosts>>
PutCancelled(i) ==
    /\ put[i].at = "renamed" /\ Idle(i) /\ put[i].job.cancelled
    /\ Removed(i, put[i].job.e) /\ WriteEnds(i)
    /\ UNCHANGED <<dir, srv, store, jobs, read, stream, look, ghosts>>

\* Ten minutes with nothing queued.
IdleSweep(i) ==
    /\ Idle(i) /\ srv[i].pc = "run" /\ put[i].at = "none" /\ jobs[i] = <<>>
    /\ Begins(i, "idle")
    /\ UNCHANGED <<dir, files, srv, store, io, stream, ghosts>>

-----------------------------------------------------------------------------
\* The clean exit: what is queued is cancelled, the I/O thread ends, and the directory is kept or removed.
Stop(i) ==
    /\ srv[i].pc = "run" /\ ~stream[i].on
    /\ Goes(i, "stopping")
    /\ jobs' = [jobs EXCEPT ![i] = [k \in DOMAIN @ |-> [jobs[i][k] EXCEPT !.cancelled = TRUE]]]
    /\ UNCHANGED <<dir, files, store, put, read, stream, look, ghosts>>
Leave(i) ==
    /\ srv[i].pc = "stopping" /\ Idle(i) /\ put[i].at = "none" /\ jobs[i] = <<>>
    /\ dir' = [dir EXCEPT ![i] = [dir[i] EXCEPT !.lock = Nobody, !.kept = srv[i].cfg.keep /\ dir[i].there]]
    /\ Goes(i, IF srv[i].cfg.keep THEN "ended" ELSE "removing") /\ Memory({i})
    /\ UNCHANGED <<files, ghosts>>
RemoveOwn(i) ==
    /\ srv[i].pc = "removing"
    /\ RemovedAll(i) /\ Goes(i, "ended")
    /\ UNCHANGED <<store, io, stream, look, ghosts>>

\* A kill: the kernel lets its locks go, and what it wrote is as far as it got.
Unlocked(I) == dir' = [d \in Instances |-> [dir[d] EXCEPT !.lock = IF @ \in I THEN Nobody ELSE @]]
Kill(i) ==
    /\ Live(i)
    /\ Unlocked({i}) /\ Goes(i, "ended") /\ Memory({i})
    /\ weak' = IF read[i].at = "sync" THEN weak \cup {read[i].job.e} ELSE weak
    /\ UNCHANGED <<files, proved>>
\* A power loss ends every server and leaves each header that had not reached the disk as it was, as it is or torn between the two.
Loose == {f \in Instances \X Entries : kv[f[1]][f[2]] # disk[f[1]][f[2]]}
Left(h, k, pick) ==
    IF pick = "new" THEN h
    ELSE IF pick = "old" \/ NoFile \in {h, k} THEN k
    ELSE IF pick = "field" THEN [f |-> h.f, s |-> k.s] ELSE [f |-> k.f, s |-> h.s]
PowerLoss ==
    /\ \E i \in Instances : Live(i)
    /\ \E pick \in [Loose -> {"new", "old", "field", "sum"}] :
        kv' = [d \in Instances |-> [e \in Entries |-> IF <<d, e>> \in Loose THEN Left(kv[d][e], disk[d][e], pick[<<d, e>>]) ELSE kv[d][e]]]
    /\ disk' = kv'
    /\ Unlocked(Instances) /\ Memory(Instances)
    /\ srv' = [i \in Instances |-> IF Live(i) THEN [srv[i] EXCEPT !.pc = "ended"] ELSE srv[i]]
    /\ UNCHANGED <<from, ghosts>>

\* A kept directory reaches the age limit.
Expire(d) ==
    /\ dir[d].kept /\ ~dir[d].old
    /\ dir' = [dir EXCEPT ![d].old = TRUE]
    /\ UNCHANGED <<files, srv, store, io, stream, look, ghosts>>

Start(i) == MakeDirectory(i) \/ TakeLock(i) \/ LockRefused(i) \/ KeepIdentity(i)
Sweep(i) ==
    \/ SweepEnd(i) \/ AdoptMove(i) \/ AdoptMoveFails(i) \/ AdoptBeside(i) \/ SweepLeave(i) \/ SweepCondemn(i) \/ SweepRemove(i)
    \/ \E d \in Instances : SweepNext(i, d) \/ SweepPasses(i, d)
    \/ \E e \in Entries : AdoptLeaves(i, e) \/ AdoptPasses(i, e) \/ AdoptTakes(i, e)
Call(i) ==
    \/ \E e \in Entries : Put(i, e) \/ Get(i, e) \/ Claim(i, e) \/ Cancel(i, e) \/ Evict(i, e) \/ OpenEntry(i, e)
    \/ OpenWhole(i) \/ OpenBad(i)
ReadIO(i) == TakeRead(i) \/ ReadBad(i) \/ ReadWhole(i) \/ ClaimBegins(i) \/ RewriteField(i) \/ RewriteSum(i) \/ RewriteSync(i)
             \/ RewriteFails(i) \/ RewriteBeside(i) \/ SettleFails(i) \/ ClaimSettle(i)
PutIO(i) == TakePut(i) \/ RefusePut(i) \/ PutWrite(i) \/ PutRename(i) \/ PutFails(i) \/ PutCommit(i) \/ PutCancelled(i)
End(i) == Stop(i) \/ Leave(i) \/ RemoveOwn(i) \/ Kill(i)

Done == (\A i \in Instances : srv[i].pc = "ended") /\ UNCHANGED vars
Acts(i) == Start(i) \/ Sweep(i) \/ Call(i) \/ ReadIO(i) \/ PutIO(i) \/ IdleSweep(i) \/ End(i)
Next == (\E i \in Instances : Acts(i)) \/ PowerLoss \/ (\E d \in Instances : Expire(d)) \/ Done
Spec == Init /\ [][Next]_vars

-----------------------------------------------------------------------------
\* No entry is another build's by mistake: one a running store serves as its own was written by its build or proved by it,
\* whatever claims were cut short and whichever builds adopted it between (DiskStore::settle, adopt_from, written_as).
OwnIsProved ==
    \A i \in Instances : Serving(i) =>
        \A e \in sizes[i] : (foreign[i][e] = NoBuild /\ kv[i][e] = WholeFor(Mine(i))) => Mine(i) \in proved[e]

\* Every entry file a kill or a power loss can leave is one the next start can settle: whole under its directory's build,
\* or with an identity beside it that its checksum or its directory's answers to.
Settleable(d, e) ==
    LET h == kv[d][e]
    IN IF from[d][e] = NoBuild THEN h.f = h.s ELSE h.s \in {from[d][e], dir[d].id}
AllSettleable == \A d \in Directories : \A e \in Files(d) : Settleable(d, e)
TornIsSettleable == \A d \in Directories : \A e \in Files(d) \ weak : Settleable(d, e)

\* A store's directory holds no file it does not know of: one cancelled or evicted as it was renamed into place is gone (write's last check).
NoStrayFile ==
    \A i \in Instances : Serving(i) =>
        \A e \in Files(i) : e \in sizes[i] \/ (put[i].at = "renamed" /\ put[i].job.e = e)

\* A kept directory's own entries that are on the disk go only into a server that adopts them, until its age limit,
\* through kills, power losses, failed writes and moves and builds that refuse them (sweep, adopt_from); all but one whose
\* header the start that removes the directory failed to read.
Condemned(d) == \E i \in Instances : look[i].at = d /\ look[i].phase = "remove"
Keeps(d) == {e \in Files(d) : kv[d][e] = WholeFor(dir[d].id) /\ disk[d][e] = kv[d][e] /\ from[d][e] = NoBuild}
Unread(d, e) == \E i \in Instances : look[i].at = d /\ e \in look[i].unread
KeptNotLost ==
    [][\A d \in Instances : (dir[d].kept /\ ~dir[d].old /\ ~Condemned(d)) =>
        \A e \in Keeps(d) : /\ \E k \in Instances : kv'[k][e] # NoFile
                            /\ Condemned(d)' => kv'[d][e] = NoFile \/ Unread(d, e)]_vars

\* "A failed step is not a bad entry." An entry "whose header could not be read" stays in its directory, "which the start then
\* leaves for a later one instead of removing it" (docs/DISK-TIER.md, Adopting another build's entries).
UnreadStays == [][\A d \in Instances, e \in Entries : (dir[d].kept /\ ~dir[d].old /\ Unread(d, e)) => ~Condemned(d)']_vars

\* "A directory whose lock is held is a live server's and is never touched" (disk_store.hpp, sweep).
LiveNeverTouched == \A i \in Instances : dir[i].lock = i => dir[i].there

\* "An entry a read outside the store's thread found bad goes, as one its own read finds bad does" (disk_store.hpp, drop_entry):
\* what a streamed read's open drops is whole under no build.
DropsOnlyBad ==
    [][\A i \in Instances : (stream[i].on /\ ~stream'[i].on /\ stream[i].e \in Files(i) /\ Live(i)' /\ dir'[i].there /\ kv'[i][stream[i].e] = NoFile)
        => ~Settleable(i, stream[i].e)]_vars

\* The store's representation: its types, no file it does not know of, and none it serves as its own that its build never proved.
StoreSound == TypeOK /\ NoStrayFile /\ OwnIsProved
=============================================================================
