-------------------------- MODULE DiskStore_proofs --------------------------
(***************************************************************************)
(* The proof that a disk store's files are of the builds their keys say,   *)
(* that whatever a kill or a power loss leaves of them can be settled, and *)
(* that what an ended server kept is not lost to a sweep.                  *)
(*                                                                         *)
(* The inductive invariant has one part per question its proof asks: who   *)
(* holds a directory and what its sweep is at (Locks), what a directory    *)
(* that is new or gone holds (Empty), that an entry is written by one job  *)
(* and is one file (OnePut, Once), the builds of its bytes (Proved), its   *)
(* header on the disk beside the one a process reads (Headed), what a      *)
(* server knows of its files (Known), and how far a claim (Claiming), an   *)
(* adoption's move (Moving) and a sweep's look (Looked) have come.         *)
(***************************************************************************)
EXTENDS DiskStore, SequenceLemmas, FiniteSetTheorems, SequenceTheorems, TLAPS

Opened(i) == srv[i].pc \in {"locked", "run", "stopping"}
Has(d, e) == kv[d][e] # NoFile

\* A server has its own directory's lock and that of the one its sweep is at; a kept directory is an ended server's,
\* and a server that does not serve has no job.
Locks(i) ==
    /\ Opened(i) => dir[i].lock = i
    /\ dir[i].kept => srv[i].pc = "ended"
    /\ look[i].left \subseteq Instances \ {i}
    /\ look[i].at # Nobody => look[i].at # i /\ look[i].sweep # "no" /\ (look[i].phase # "remove" => dir[look[i].at].lock = i)
    /\ look[i].sweep # "no" => Opened(i)
    /\ look[i].sweep = "start" <=> srv[i].pc = "locked" /\ look[i].sweep # "no"
    /\ look[i].phase # "adopt" => look[i].at # Nobody
    /\ look[i].todo # {} => Adopts(i) /\ look[i].at # Nobody /\ look[i].phase # "remove"
    /\ look[i].phase \in {"move", "beside"} => look[i].mv \in look[i].todo
    /\ ~Serving(i) => read[i].at = "none" /\ put[i].at = "none" /\ jobs[i] = <<>> /\ ~stream[i].on
    /\ look[i].took \/ (look[i].phase = "move" /\ look[i].as # Mine(i)) => srv[i].cfg.proved /\ srv[i].pc # "off"

\* A directory that is gone, or whose server has not begun its start's sweep, holds nothing; a file that is gone has not reached the disk.
Fresh(d) == srv[d].pc \in {"off", "made"} \/ (srv[d].pc = "locked" /\ look[d].sweep = "no")
Empty(d, e) ==
    /\ ~dir[d].there \/ Fresh(d) => dir[d].id = NoBuild /\ ~Has(d, e) /\ from[d][e] = NoBuild
    /\ Fresh(d) => e \notin sizes[d] /\ foreign[d][e] = NoBuild
    /\ ~Has(d, e) => disk[d][e] = NoFile

\* An entry has one write at most, queued or in progress, no other work while it has one, and its writer's bytes.
Queues(i, e) == \E k \in DOMAIN jobs[i] : IsPut(jobs[i][k], e)
Writes(i, e) == put[i].at # "none" /\ put[i].job.e = e
Renamed(i, e) == put[i].at = "renamed" /\ put[i].job.e = e
Touches(i, e) == e \in sizes[i] \/ (read[i].at # "none" /\ read[i].job.e = e) \/ (stream[i].on /\ stream[i].e = e)
OnePut(i, e) ==
    /\ \A k, l \in DOMAIN jobs[i] : IsPut(jobs[i][k], e) /\ IsPut(jobs[i][l], e) => k = l
    /\ Writes(i, e) => ~Queues(i, e)
    /\ Touches(i, e) => proved[e] # {} /\ ~Puts(i, e)
    /\ Puts(i, e) => Mine(i) \in proved[e]

\* An entry is one file in one directory, and written by one server, into its own, while it is none.
Once(e) ==
    /\ \A c, d \in Instances : Has(c, e) /\ Has(d, e) => c = d
    /\ \A i, j \in Instances : Puts(i, e) /\ Puts(j, e) => i = j
    /\ \A i, d \in Instances : Puts(i, e) /\ Has(d, e) => d = i /\ Renamed(i, e)

\* A header's checksum is over a build its bytes are, and a claim is asked for of a build that proved them.
Claims(i, e) == (\E k \in DOMAIN jobs[i] : jobs[i][k].kind = "claim" /\ jobs[i][k].e = e) \/ (read[i].at # "none" /\ read[i].job.kind = "claim" /\ read[i].job.e = e)
Proved(d, e) ==
    /\ Has(d, e) => kv[d][e].s \in proved[e]
    /\ disk[d][e] # NoFile => disk[d][e].s \in proved[e]
    /\ Claims(d, e) => Mine(d) \in proved[e]

\* A file without an identity beside it is whole, and on the disk the same or not yet there; with one, its checksum answers to it or to
\* its directory's, and the disk has it as it is, not yet, or as a claim in progress found it.
Syncing(d, e) == read[d].at = "sync" /\ read[d].job.e = e
Headed(d, e) ==
    LET h == kv[d][e]  k == disk[d][e]  a == from[d][e]  b == dir[d].id
    IN Has(d, e) /\ e \notin weak =>
        IF a = NoBuild THEN h.f = h.s /\ k \in {h, NoFile}
        ELSE /\ a # b /\ h.s \in {a, b}
             /\ k \in {h, NoFile} \/ (k = WholeFor(a) /\ (h = [f |-> b, s |-> a] \/ (h = WholeFor(b) /\ Syncing(d, e))))

\* A server's index is its directory's files, but for one it is writing, and the identities beside them are those of the entries it
\* adopted from others, but for one it is moving in.
Moves(i, e) == look[i].phase = "move" /\ look[i].mv = e /\ look[i].as # Mine(i) /\ dir[i].there
Known(i, e) ==
    Opened(i) =>
        /\ ~Fresh(i) /\ dir[i].there => dir[i].id = Mine(i)
        /\ foreign[i][e] # Mine(i)
        /\ foreign[i][e] # NoBuild => e \in sizes[i]
        /\ (e \in sizes[i] \/ Renamed(i, e)) /\ dir[i].there => Has(i, e)
        /\ Has(i, e) => e \in sizes[i] \/ Renamed(i, e)
        /\ Has(i, e) /\ foreign[i][e] # NoBuild => from[i][e] = foreign[i][e]
        /\ ~Has(i, e) => from[i][e] = IF Moves(i, e) THEN look[i].as ELSE NoBuild

\* What each step of a claim finds of the header the one before it left.
Claiming(i) ==
    LET e == read[i].job.e  h == kv[i][e]
    IN read[i].at \in {"field", "sum", "sync", "beside", "settle"} =>
        /\ read[i].job.kind = "claim" /\ read[i].theirs \notin {NoBuild, Mine(i)}
        /\ Has(i, e) =>
            /\ foreign[i][e] = read[i].theirs
            /\ read[i].at = "field" => h = WholeFor(read[i].theirs)
            /\ read[i].at = "sum" => h = [f |-> Mine(i), s |-> read[i].theirs] /\ (e \notin weak => disk[i][e] \in {WholeFor(read[i].theirs), NoFile})
            /\ read[i].at \in {"sync", "beside"} => h = WholeFor(Mine(i))
            /\ read[i].at = "beside" => disk[i][e] = h

\* The entry an adoption is about to move is whole under the build it was settled as, and not in its new place yet.
Moving(i) ==
    LET d == look[i].at  e == look[i].mv
    IN /\ look[i].phase = "move" =>
            /\ look[i].as # NoBuild /\ ~Has(i, e)
            /\ Has(d, e) => kv[d][e] = WholeFor(look[i].as) /\ (e \notin weak => disk[d][e] \in {WholeFor(look[i].as), NoFile})
       /\ look[i].phase = "beside" => ~Has(d, e)

\* A sweep that has passed over an entry its directory keeps has a reason to leave that directory, or failed to read the entry's header.
Looked(i) ==
    LET d == look[i].at
    IN (Adopts(i) /\ d # Nobody /\ look[i].phase # "remove") =>
        \A e \in Keeps(d) : e \in look[i].todo \/ look[i].retain \/ look[i].refused \/ e \in look[i].unread \/ (~srv[i].cfg.proved /\ dir[d].id # Mine(i))

LocksI == \A i \in Instances : Locks(i)
EmptyI == \A d \in Instances, e \in Entries : Empty(d, e)
PutI == \A i \in Instances, e \in Entries : OnePut(i, e)
OnceI == \A e \in Entries : Once(e)
ProvedI == \A d \in Instances, e \in Entries : Proved(d, e)
HeadedI == \A d \in Instances, e \in Entries : Headed(d, e)
KnownI == \A i \in Instances, e \in Entries : Known(i, e)
ClaimingI == \A i \in Instances : Claiming(i)
MovingI == \A i \in Instances : Moving(i)
LookedI == \A i \in Instances : Looked(i)

IInv ==
    /\ TypeOK /\ LocksI /\ EmptyI /\ PutI /\ OnceI /\ ProvedI
    /\ HeadedI /\ KnownI /\ ClaimingI /\ MovingI /\ LookedI

-----------------------------------------------------------------------------
\* What the model's operators and actions assign, typed (a name that ends in T), cell by cell (E, F), and the parts of the
\* invariant that follow where an action leaves their cells as they were (Frame, Same, Gone, Rests, Drop).
LEMMA GoesT ==
  ASSUME TypeOK, NEW i \in Instances, NEW pc \in {"off", "made", "locked", "run", "stopping", "removing", "ended"}, Goes(i, pc)
  PROVE  srv' \in [Instances -> Server]
<1>1. srv \in [Instances -> Server] /\ srv' = [srv EXCEPT ![i].pc = pc]
  BY DEF TypeOK, Goes
<1> QED
  BY <1>1 DEF Server
LEMMA NoFileT == NoFile \in Header /\ NoFiles \in [Entries -> Header] /\ Unmarked \in [Entries -> Build] /\ NoBuild \in Build
  BY DEF NoFile, Header, Build, NoFiles, Unmarked
LEMMA NoneT ==
  ASSUME DiskStoreAssumption
  PROVE  SomeEntry \in Entries /\ NoDirectory \in Directory /\ NoWrite \in Write /\ NoRead \in Read /\ NoStream \in Stream /\ NoLook \in Look
<1>1. SomeEntry \in Entries
  BY DEF DiskStoreAssumption, SomeEntry
<1>2. NoJob \in Job
  BY <1>1 DEF NoJob, Job
<1>3. NoDirectory \in Directory
  BY DEF NoDirectory, Directory, Build
<1>4. NoWrite \in Write
  BY <1>2 DEF NoWrite, Write
<1>5. NoRead \in Read
  BY <1>2 DEF NoRead, Read, Build
<1>6. NoStream \in Stream
  BY <1>1 DEF NoStream, Stream, Build
<1>7. NoLook \in Look
  BY <1>1 DEF NoLook, Look, Build
<1> QED
  BY <1>1, <1>3, <1>4, <1>5, <1>6, <1>7
LEMMA RemovedT == ASSUME TypeOK, NEW d \in Instances, NEW e \in Entries, Removed(d, e)
                  PROVE kv' \in [Instances -> [Entries -> Header]] /\ from' \in [Instances -> [Entries -> Build]] /\ disk' \in [Instances -> [Entries -> Header]]
<1>1. kv' \in [Instances -> [Entries -> Header]]
<2>1. kv \in [Instances -> [Entries -> Header]] /\ kv' = [kv EXCEPT ![d][e] = NoFile] /\ NoFile \in Header
  BY NoFileT DEF TypeOK, Removed
<2> QED
  BY <2>1
<1>2. from' \in [Instances -> [Entries -> Build]]
  BY NoFileT DEF TypeOK, Removed
<1>3. disk' \in [Instances -> [Entries -> Header]]
  BY NoFileT DEF TypeOK, Removed
<1> QED
  BY <1>1, <1>2, <1>3
LEMMA RemovedAllT == ASSUME DiskStoreAssumption, TypeOK, NEW d \in Instances, RemovedAll(d)
                     PROVE dir' \in [Instances -> Directory] /\ kv' \in [Instances -> [Entries -> Header]] /\ from' \in [Instances -> [Entries -> Build]] /\ disk' \in [Instances -> [Entries -> Header]]
<1>1. dir \in [Instances -> Directory] /\ dir' = [dir EXCEPT ![d] = [NoDirectory EXCEPT !.lock = dir[d].lock]]
  BY DEF TypeOK, RemovedAll
<1>2. dir[d].lock \in Instances \cup {Nobody}
  BY <1>1 DEF Directory
<1>3. [NoDirectory EXCEPT !.lock = dir[d].lock] \in Directory
  BY <1>2 DEF Directory, NoDirectory, Build
<1>4. dir' \in [Instances -> Directory]
  BY <1>1, <1>3
<1>5. kv' \in [Instances -> [Entries -> Header]] /\ from' \in [Instances -> [Entries -> Build]] /\ disk' \in [Instances -> [Entries -> Header]]
<2>1. kv' = [kv EXCEPT ![d] = NoFiles] /\ from' = [from EXCEPT ![d] = Unmarked] /\ disk' = [disk EXCEPT ![d] = NoFiles]
  BY DEF RemovedAll
<2>2. kv \in [Instances -> [Entries -> Header]] /\ from \in [Instances -> [Entries -> Build]] /\ disk \in [Instances -> [Entries -> Header]]
  BY DEF TypeOK
<2> QED
  BY <2>1, <2>2, NoFileT
<1> QED
  BY <1>4, <1>5
LEMMA ForgottenT == ASSUME TypeOK, NEW i \in Instances, NEW e \in Entries, Forgotten(i, e)
                    PROVE sizes' \in [Instances -> SUBSET Entries] /\ foreign' \in [Instances -> [Entries -> Build]]
  BY NoFileT DEF TypeOK, Forgotten
LEMMA MemoryT == ASSUME DiskStoreAssumption, TypeOK, NEW I \in SUBSET Instances, Memory(I)
                 PROVE /\ sizes' \in [Instances -> SUBSET Entries] /\ foreign' \in [Instances -> [Entries -> Build]] /\ claimed' \in [Instances -> SUBSET Entries]
                       /\ jobs' \in [Instances -> Seq(Job)] /\ (\A k \in Instances : Len(jobs'[k]) <= MaxJobs)
                       /\ put' \in [Instances -> Write] /\ read' \in [Instances -> Read] /\ stream' \in [Instances -> Stream] /\ look' \in [Instances -> Look]
<1>1. sizes' \in [Instances -> SUBSET Entries] /\ foreign' \in [Instances -> [Entries -> Build]] /\ claimed' \in [Instances -> SUBSET Entries]
<2>1. sizes' \in [Instances -> SUBSET Entries]
  BY DEF TypeOK, Memory
<2>2. foreign' \in [Instances -> [Entries -> Build]]
<3>1. foreign \in [Instances -> [Entries -> Build]] /\ Unmarked \in [Entries -> Build] /\ foreign' = [k \in Instances |-> IF k \in I THEN Unmarked ELSE foreign[k]]
  BY NoFileT DEF TypeOK, Memory
<3> QED
  BY <3>1
<2>3. claimed' \in [Instances -> SUBSET Entries]
  BY DEF TypeOK, Memory
<2> QED
  BY <2>1, <2>2, <2>3
<1>2. jobs' \in [Instances -> Seq(Job)] /\ (\A k \in Instances : Len(jobs'[k]) <= MaxJobs)
  BY DEF TypeOK, Memory, DiskStoreAssumption
<1>3. put' \in [Instances -> Write] /\ read' \in [Instances -> Read] /\ stream' \in [Instances -> Stream] /\ look' \in [Instances -> Look]
  BY NoneT DEF TypeOK, Memory
<1> QED
  BY <1>1, <1>2, <1>3
LEMMA TypeAt == ASSUME TypeOK, NEW i \in Instances
                PROVE dir[i] \in Directory /\ srv[i] \in Server /\ put[i] \in Write /\ read[i] \in Read /\ stream[i] \in Stream /\ look[i] \in Look
  BY DEF TypeOK
LEMMA DirSet == ASSUME TypeOK, NEW i \in Instances, NEW v \in Directory, dir' = [dir EXCEPT ![i] = v] PROVE dir' \in [Instances -> Directory]
  BY DEF TypeOK
LEMMA LookSet == ASSUME TypeOK, NEW i \in Instances, NEW v \in Look, look' = [look EXCEPT ![i] = v] PROVE look' \in [Instances -> Look]
  BY DEF TypeOK
LEMMA ReadSet == ASSUME TypeOK, NEW i \in Instances, NEW v \in Read, read' = [read EXCEPT ![i] = v] PROVE read' \in [Instances -> Read]
  BY DEF TypeOK
LEMMA PutSet == ASSUME TypeOK, NEW i \in Instances, NEW v \in Write, put' = [put EXCEPT ![i] = v] PROVE put' \in [Instances -> Write]
  BY DEF TypeOK
LEMMA StreamSet == ASSUME TypeOK, NEW i \in Instances, NEW v \in Stream, stream' = [stream EXCEPT ![i] = v] PROVE stream' \in [Instances -> Stream]
  BY DEF TypeOK
LEMMA SrvSet == ASSUME TypeOK, NEW i \in Instances, NEW v \in Server, srv' = [srv EXCEPT ![i] = v] PROVE srv' \in [Instances -> Server]
  BY DEF TypeOK
LEMMA PassesT ==
  ASSUME TypeOK, NEW i \in Instances, NEW e \in Entries, NEW failed \in BOOLEAN, NEW unread \in SUBSET Entries, Passes(i, e, failed, unread)
  PROVE  look' \in [Instances -> Look]
<1>1. look[i] \in Look
  BY TypeAt
<1>2. [look[i] EXCEPT !.todo = @ \ {e}, !.retain = @ \/ failed, !.unread = @ \cup unread] \in Look
  BY <1>1 DEF Look
<1> QED
  BY <1>2, LookSet DEF Passes
LEMMA BeginsT == ASSUME TypeOK, NEW i \in Instances, NEW kind \in {"start", "idle"}, Begins(i, kind) PROVE look' \in [Instances -> Look]
<1>1. Directories \ {i} \in SUBSET Instances /\ look[i] \in Look
  BY TypeAt DEF Directories
<1>2. [look[i] EXCEPT !.sweep = kind, !.left = Directories \ {i}] \in Look
  BY <1>1 DEF Look
<1> QED
  BY <1>2, LookSet DEF Begins
LEMMA UnlockedT == ASSUME TypeOK, NEW I, Unlocked(I) PROVE dir' \in [Instances -> Directory]
<1>1. dir \in [Instances -> Directory] /\ dir' = [d \in Instances |-> [dir[d] EXCEPT !.lock = IF @ \in I THEN Nobody ELSE @]]
  BY DEF TypeOK, Unlocked
<1> QED
  BY <1>1 DEF Directory
LEMMA UntempedT == ASSUME TypeOK, NEW i \in Instances, NEW e, Untemped(i, e) PROVE dir' \in [Instances -> Directory]
<1>1. dir \in [Instances -> Directory] /\ dir' = [dir EXCEPT ![i].tmp = @ \ {e}]
  BY DEF TypeOK, Untemped
<1> QED
  BY <1>1 DEF Directory
LEMMA SettledT == ASSUME TypeOK, NEW d \in Instances, NEW e \in Entries, NEW h \in Header, Settled(d, e, h)
                  PROVE kv' \in [Instances -> [Entries -> Header]] /\ disk' \in [Instances -> [Entries -> Header]]
  BY DEF TypeOK, Settled
LEMMA JobsSet == ASSUME TypeOK, NEW i \in Instances, NEW s \in Seq(Job), Len(s) <= MaxJobs, jobs' = [jobs EXCEPT ![i] = s]
                 PROVE jobs' \in [Instances -> Seq(Job)] /\ (\A k \in Instances : Len(jobs'[k]) <= MaxJobs)
  BY DEF TypeOK
LEMMA ReadAtT ==
  ASSUME TypeOK, NEW i \in Instances, NEW at \in {"none", "check", "field", "sum", "sync", "beside", "settle"}, ReadAt(i, at)
  PROVE  read' \in [Instances -> Read]
<1>1. read \in [Instances -> Read] /\ read' = [read EXCEPT ![i].at = at]
  BY DEF TypeOK, ReadAt
<1> QED
  BY <1>1 DEF Read
LEMMA ReadEndsT == ASSUME DiskStoreAssumption, TypeOK, NEW i \in Instances, ReadEnds(i) PROVE read' \in [Instances -> Read]
  BY NoneT DEF TypeOK, ReadEnds
LEMMA WriteEndsT == ASSUME DiskStoreAssumption, TypeOK, NEW i \in Instances, WriteEnds(i) PROVE put' \in [Instances -> Write]
  BY NoneT DEF TypeOK, WriteEnds
LEMMA QueuedT == ASSUME DiskStoreAssumption, TypeOK, NEW i \in Instances, NEW e \in Entries, NEW kind \in {"put", "get", "claim"}, Len(jobs[i]) < MaxJobs, Queued(i, kind, e)
                 PROVE jobs' \in [Instances -> Seq(Job)] /\ (\A k \in Instances : Len(jobs'[k]) <= MaxJobs)
<1> DEFINE j == [kind |-> kind, e |-> e, cancelled |-> FALSE]
<1>1. jobs[i] \in Seq(Job) /\ j \in Job /\ MaxJobs \in Nat
  BY DEF TypeOK, Job, DiskStoreAssumption
<1>2. Append(jobs[i], j) \in Seq(Job) /\ Len(Append(jobs[i], j)) = Len(jobs[i]) + 1 /\ Len(jobs[i]) \in Nat
  BY <1>1
<1>3. Len(Append(jobs[i], j)) <= MaxJobs
  BY <1>1, <1>2
<1>4. jobs' = [jobs EXCEPT ![i] = Append(jobs[i], j)]
  BY DEF Queued
<1> QED
  BY <1>2, <1>3, <1>4, JobsSet
LEMMA MineT == ASSUME TypeOK, NEW i \in Instances PROVE Mine(i) \in Builds /\ Mine(i) \in Build
<1>1. srv[i] \in Server
  BY TypeAt
<1>2. srv[i].cfg \in Config
  BY <1>1 DEF Server
<1> QED
  BY <1>2 DEF Config, Mine, Build
LEMMA HeaderT == ASSUME NEW h \in Header PROVE h.f \in Build /\ h.s \in Build
  BY DEF Header
LEMMA WholeT == ASSUME NEW b \in Build PROVE WholeFor(b) \in Header
  BY DEF Header, WholeFor
LEMMA OwnerT == ASSUME NEW h \in Header, NEW a, NEW b PROVE Owner(h, a, b) \in Build
  BY HeaderT DEF Owner, Build
LEMMA IdT == ASSUME TypeOK, NEW d \in Instances PROVE dir[d].id \in Build
<1>1. dir[d] \in Directory
  BY TypeAt
<1> QED
  BY <1>1 DEF Directory
LEMMA TakenT == ASSUME TypeOK, NEW i \in Instances, NEW d \in Instances, NEW e \in Entries
                PROVE Wrote(d, e) \in Build /\ Standing(d, e) \in Header /\ TakenAs(i, d, e) \in Build /\ WholeFor(TakenAs(i, d, e)) \in Header
<1>1. kv[d][e] \in Header
  BY DEF TypeOK
<1>2. Wrote(d, e) \in Build
  BY <1>1, OwnerT, IdT DEF Wrote
<1>3. Standing(d, e) \in Header
  BY <1>1, <1>2, WholeT DEF Standing
<1>4. TakenAs(i, d, e) \in Build
  BY <1>2, MineT DEF TakenAs
<1> QED
  BY <1>2, <1>3, <1>4, WholeT
LEMMA LookedT == ASSUME TypeOK, NEW i \in Instances
                 PROVE look[i].at \in Instances \cup {Nobody} /\ look[i].mv \in Entries /\ look[i].todo \in SUBSET Entries /\ look[i].left \in SUBSET Instances /\ look[i].as \in Build
<1>1. look[i] \in Look
  BY TypeAt
<1> QED
  BY <1>1 DEF Look
LEMMA JobT == ASSUME TypeOK, NEW i \in Instances
              PROVE put[i].job \in Job /\ read[i].job \in Job /\ put[i].job.e \in Entries /\ read[i].job.e \in Entries /\ read[i].theirs \in Build /\ stream[i].e \in Entries
<1>1. put[i] \in Write /\ read[i] \in Read /\ stream[i] \in Stream
  BY TypeAt
<1>2. put[i].job \in Job /\ read[i].job \in Job
  BY <1>1 DEF Write, Read
<1>3. read[i].theirs \in Build /\ stream[i].e \in Entries
  BY <1>1 DEF Read, Stream
<1> QED
  BY <1>2, <1>3 DEF Job
LEMMA EndedT == ASSUME DiskStoreAssumption, TypeOK, NEW i \in Instances PROVE LookEnded(look[i]) \in Look
<1>1. look[i] \in Look /\ NoLook \in Look
  BY TypeAt, NoneT
<1> QED
  BY <1>1 DEF LookEnded, Look
LEMMA CancelledT == ASSUME DiskStoreAssumption, TypeOK, NEW i \in Instances, NEW e \in Entries, Cancelled(i, e)
                    PROVE jobs' \in [Instances -> Seq(Job)] /\ (\A k \in Instances : Len(jobs'[k]) <= MaxJobs) /\ put' \in [Instances -> Write]
<1>1. jobs[i] \in Seq(Job) /\ Len(jobs[i]) <= MaxJobs
  BY DEF TypeOK
<1> DEFINE s == [k \in DOMAIN jobs[i] |-> IF IsPut(jobs[i][k], e) THEN [jobs[i][k] EXCEPT !.cancelled = TRUE] ELSE jobs[i][k]]
<1>2. \A k \in DOMAIN jobs[i] : jobs[i][k] \in Job
  BY <1>1
<1>3. \A k \in DOMAIN jobs[i] : [jobs[i][k] EXCEPT !.cancelled = TRUE] \in Job
  BY <1>2 DEF Job
<1>4. s \in Seq(Job) /\ Len(s) = Len(jobs[i])
  <2>1. DOMAIN jobs[i] = 1 .. Len(jobs[i]) /\ Len(jobs[i]) \in Nat
    BY <1>1
  <2>2. \A k \in 1 .. Len(jobs[i]) : (IF IsPut(jobs[i][k], e) THEN [jobs[i][k] EXCEPT !.cancelled = TRUE] ELSE jobs[i][k]) \in Job
    BY <1>2, <1>3, <2>1
  <2> QED
    BY <2>1, <2>2
<1>5. jobs' \in [Instances -> Seq(Job)] /\ (\A k \in Instances : Len(jobs'[k]) <= MaxJobs)
  <2>1. jobs' = [jobs EXCEPT ![i] = s]
    BY DEF Cancelled
  <2> QED
    BY <1>1, <1>4, <2>1, JobsSet
<1>6. put' \in [Instances -> Write]
  <2>1. put[i].job \in Job /\ put[i] \in Write
    BY TypeAt, JobT
  <2>3. [put[i].job EXCEPT !.cancelled = @ \/ (put[i].at # "none" /\ put[i].job.e = e)] \in Job
    BY <2>1 DEF Job
  <2>4. [put[i] EXCEPT !.job = [put[i].job EXCEPT !.cancelled = @ \/ (put[i].at # "none" /\ put[i].job.e = e)]] \in Write
    BY <2>1, <2>3 DEF Write
  <2>5. put' = [put EXCEPT ![i] = [put[i] EXCEPT !.job = [put[i].job EXCEPT !.cancelled = @ \/ (put[i].at # "none" /\ put[i].job.e = e)]]]
    BY DEF Cancelled
  <2> QED
    BY <2>4, <2>5, PutSet
<1> QED
  BY <1>5, <1>6
LEMMA Removal == ASSUME NEW S, NEW s \in Seq(S), NEW k \in 1 .. Len(s)
                 PROVE /\ RemoveAt(s, k) \in Seq(S) /\ Len(RemoveAt(s, k)) = Len(s) - 1
                       /\ \A l \in 1 .. Len(s) - 1 : RemoveAt(s, k)[l] = IF l < k THEN s[l] ELSE s[l + 1]
<1>1. RemoveAt(s, k) = SubSeq(s, 1, k - 1) \o SubSeq(s, k + 1, Len(s))
  BY DEF RemoveAt
<1>2. SubSeq(s, 1, k - 1) \in Seq(S) /\ Len(SubSeq(s, 1, k - 1)) = k - 1 /\ (\A l \in 1 .. k - 1 : SubSeq(s, 1, k - 1)[l] = s[l])
  BY SubSeqProperties
<1>3. SubSeq(s, k + 1, Len(s)) \in Seq(S) /\ Len(SubSeq(s, k + 1, Len(s))) = Len(s) - k /\ (\A l \in 1 .. Len(s) - k : SubSeq(s, k + 1, Len(s))[l] = s[l + k])
  BY SubSeqProperties
<1> DEFINE a == SubSeq(s, 1, k - 1)  b == SubSeq(s, k + 1, Len(s))
<1> HIDE DEF a, b
<1>4. a \o b \in Seq(S) /\ Len(a \o b) = Len(a) + Len(b) /\ (\A l \in 1 .. Len(a) + Len(b) : (a \o b)[l] = IF l <= Len(a) THEN a[l] ELSE b[l - Len(a)])
  BY ZenonT(60), <1>2, <1>3, ConcatProperties DEF a, b
<1>5. RemoveAt(s, k) = a \o b
  BY <1>1 DEF a, b
<1>6. Len(a) = k - 1 /\ Len(b) = Len(s) - k /\ Len(s) \in Nat
  BY <1>2, <1>3 DEF a, b
<1>7. \A l \in 1 .. Len(s) - 1 : (a \o b)[l] = IF l < k THEN s[l] ELSE s[l + 1]
  <2> TAKE l \in 1 .. Len(s) - 1
  <2>1. CASE l < k
    <3>1. a[l] = s[l]
      BY <1>2, <2>1 DEF a
    <3> QED
      BY <1>4, <1>6, <2>1, <3>1
  <2>2. CASE k <= l
    <3>1. b[l - (k - 1)] = s[l - (k - 1) + k]
      BY <1>3, <2>2 DEF b
    <3>2. ~(l <= Len(a)) /\ l - (k - 1) + k = l + 1 /\ l - Len(a) = l - (k - 1)
      BY <1>6, <2>2
    <3> QED
      BY <1>4, <1>6, <2>2, <3>1, <3>2
  <2> QED
    BY <1>6, <2>1, <2>2
<1>8. RemoveAt(s, k) \in Seq(S)
  BY <1>4, <1>5
<1>9. Len(RemoveAt(s, k)) = Len(s) - 1
  BY <1>4, <1>5, <1>6
<1>10. \A l \in 1 .. Len(s) - 1 : RemoveAt(s, k)[l] = IF l < k THEN s[l] ELSE s[l + 1]
  BY <1>5, <1>7
<1> QED
  BY <1>8, <1>9, <1>10
LEMMA FirstReadT == ASSUME TypeOK, NEW i \in Instances, Reads(i) # {}
                    PROVE FirstRead(i) \in 1 .. Len(jobs[i]) /\ FirstRead(i) \in Reads(i) /\ (\A l \in Reads(i) : FirstRead(i) <= l)
<1>1. Reads(i) \subseteq Nat
  BY DEF TypeOK, Reads
<1>2. PICK k \in Reads(i) : \A l \in Reads(i) : k <= l
  BY <1>1, LeastNat
<1>3. FirstRead(i) \in Reads(i) /\ (\A l \in Reads(i) : FirstRead(i) <= l)
  BY <1>2 DEF FirstRead
<1> QED
  BY <1>3 DEF TypeOK, Reads
LEMMA Cell == ASSUME NEW S, NEW f \in [Instances -> [Entries -> S]], NEW d \in Instances, NEW e \in Entries, NEW v
              PROVE \A c \in Instances, g \in Entries : [f EXCEPT ![d][e] = v][c][g] = IF c = d /\ g = e THEN v ELSE f[c][g]
  OBVIOUS
LEMMA RemovedE == ASSUME TypeOK, NEW d \in Instances, NEW e \in Entries, Removed(d, e)
                  PROVE \A c \in Instances, g \in Entries : /\ kv'[c][g] = IF c = d /\ g = e THEN NoFile ELSE kv[c][g]
                                                            /\ disk'[c][g] = IF c = d /\ g = e THEN NoFile ELSE disk[c][g]
                                                            /\ from'[c][g] = IF c = d /\ g = e THEN NoBuild ELSE from[c][g]
  BY DEF TypeOK, Removed
LEMMA SettledE == ASSUME TypeOK, NEW d \in Instances, NEW e \in Entries, NEW h, Settled(d, e, h)
                  PROVE \A c \in Instances, g \in Entries : /\ kv'[c][g] = IF c = d /\ g = e THEN h ELSE kv[c][g]
                                                            /\ disk'[c][g] = IF c = d /\ g = e /\ kv[c][g] # h THEN h ELSE disk[c][g]
  BY DEF TypeOK, Settled
LEMMA AdoptMoveF ==
    ASSUME TypeOK, NEW i \in Instances, AdoptMove(i)
    PROVE  LET d == look[i].at  e == look[i].mv
           IN /\ d \in Instances /\ e \in Entries
              /\ \A c \in Instances, g \in Entries :
                   /\ kv'[c][g] = IF c = d /\ g = e THEN NoFile ELSE IF c = i /\ g = e THEN kv[d][e] ELSE kv[c][g]
                   /\ disk'[c][g] = IF c = d /\ g = e THEN NoFile ELSE IF c = i /\ g = e THEN disk[d][e] ELSE disk[c][g]
                   /\ g \in sizes'[c] <=> g \in sizes[c] \/ (c = i /\ g = e)
                   /\ foreign'[c][g] = IF c = i /\ g = e THEN (IF look[i].as = Mine(i) THEN NoBuild ELSE look[i].as) ELSE foreign[c][g]
<1> DEFINE d == look[i].at  e == look[i].mv
           build == IF look[i].as = Mine(i) THEN NoBuild ELSE look[i].as
<1>1. d \in Instances /\ e \in Entries
  BY LookedT DEF AdoptMove
<1>2. /\ kv \in [Instances -> [Entries -> Header]] /\ disk \in [Instances -> [Entries -> Header]] /\ sizes \in [Instances -> SUBSET Entries]
      /\ foreign \in [Instances -> [Entries -> Build]]
  BY DEF TypeOK
<1>3. /\ kv' = [kv EXCEPT ![i][e] = kv[d][e], ![d][e] = NoFile]
      /\ disk' = [disk EXCEPT ![i][e] = disk[d][e], ![d][e] = NoFile]
      /\ sizes' = [sizes EXCEPT ![i] = @ \cup {e}]
      /\ foreign' = [foreign EXCEPT ![i][e] = build]
  BY DEF AdoptMove
<1> HIDE DEF build
<1>5. \A c \in Instances, g \in Entries :
         /\ kv'[c][g] = IF c = d /\ g = e THEN NoFile ELSE IF c = i /\ g = e THEN kv[d][e] ELSE kv[c][g]
         /\ disk'[c][g] = IF c = d /\ g = e THEN NoFile ELSE IF c = i /\ g = e THEN disk[d][e] ELSE disk[c][g]
  BY SMTT(60), <1>1, <1>2, <1>3
<1>6. \A c \in Instances, g \in Entries :
         /\ g \in sizes'[c] <=> g \in sizes[c] \/ (c = i /\ g = e)
         /\ foreign'[c][g] = IF c = i /\ g = e THEN build ELSE foreign[c][g]
  BY <1>1, <1>2, <1>3
<1>7. \A c \in Instances, g \in Entries :
         /\ g \in sizes'[c] <=> g \in sizes[c] \/ (c = i /\ g = e)
         /\ foreign'[c][g] = IF c = i /\ g = e THEN (IF look[i].as = Mine(i) THEN NoBuild ELSE look[i].as) ELSE foreign[c][g]
  BY <1>6 DEF build
<1> HIDE DEF d, e
<1> QED
  BY <1>1, <1>5, <1>7 DEF d, e
LEMMA AdoptMoveE ==
    ASSUME TypeOK, NEW i \in Instances, AdoptMove(i)
    PROVE  LET d == look[i].at  e == look[i].mv
           IN /\ d \in Instances /\ e \in Entries /\ look[i].phase = "move" /\ dir[i].there /\ kv[d][e] # NoFile
              /\ UNCHANGED <<dir, from, srv, claimed, jobs, put, read, stream, proved, weak>>
              /\ \A k \in Instances : k # i => look'[k] = look[k]
              /\ look'[i].phase = IF from[d][e] = NoBuild THEN "adopt" ELSE "beside"
              /\ look'[i].todo = IF from[d][e] = NoBuild THEN look[i].todo \ {e} ELSE look[i].todo
              /\ look'[i].took <=> look[i].took \/ look[i].as # Mine(i)
              /\ look'[i].retain = look[i].retain /\ look'[i].refused = look[i].refused /\ look'[i].as = look[i].as
              /\ look'[i].left = look[i].left /\ look'[i].at = d /\ look'[i].sweep = look[i].sweep /\ look'[i].mv = e /\ look'[i].unread = look[i].unread
<1> DEFINE d == look[i].at  e == look[i].mv
<1>1. d \in Instances /\ e \in Entries /\ look[i].phase = "move" /\ dir[i].there /\ kv[d][e] # NoFile
  BY LookedT DEF AdoptMove
<1>2. look \in [Instances -> Look]
  BY DEF TypeOK
<1> DEFINE next == IF from[d][e] = NoBuild THEN "adopt" ELSE "beside"
           took == look[i].took \/ look[i].as # Mine(i)
<1>3. /\ look' = [look EXCEPT ![i] = [look[i] EXCEPT !.phase = next, !.todo = IF next = "adopt" THEN @ \ {e} ELSE @, !.took = took]]
      /\ UNCHANGED <<dir, from, srv, claimed, jobs, put, read, stream, proved, weak>>
  BY DEF AdoptMove, io, ghosts
<1>4. next \in {"adopt", "beside"} /\ (next = "adopt" <=> from[d][e] = NoBuild)
  OBVIOUS
<1> HIDE DEF next, took
<1>7. \A k \in Instances : k # i => look'[k] = look[k]
  BY <1>2, <1>3
<1>8. /\ look'[i].phase = next /\ look'[i].todo = (IF next = "adopt" THEN look[i].todo \ {e} ELSE look[i].todo) /\ look'[i].took = took
      /\ look'[i].retain = look[i].retain /\ look'[i].refused = look[i].refused /\ look'[i].as = look[i].as
      /\ look'[i].left = look[i].left /\ look'[i].at = d /\ look'[i].sweep = look[i].sweep /\ look'[i].mv = e /\ look'[i].unread = look[i].unread
  BY <1>2, <1>3 DEF Look
<1>9. look'[i].took <=> look[i].took \/ look[i].as # Mine(i)
  BY <1>8 DEF took
<1>10. /\ look'[i].phase = IF from[d][e] = NoBuild THEN "adopt" ELSE "beside"
       /\ look'[i].todo = IF from[d][e] = NoBuild THEN look[i].todo \ {e} ELSE look[i].todo
  BY <1>8 DEF next
<1> QED
  BY <1>1, <1>3, <1>7, <1>8, <1>9, <1>10
LEMMA AdoptPassesE ==
    ASSUME TypeOK, NEW i \in Instances, NEW e \in Entries, AdoptPasses(i, e)
    PROVE  LET d == look[i].at IN
           /\ d \in Instances /\ look[i].phase = "adopt" /\ e \in look[i].todo /\ Readable(d, e)
           /\ \A c \in Instances, g \in Entries :
                /\ kv'[c][g] = IF c = d /\ g = e THEN Standing(d, e) ELSE kv[c][g]
                /\ disk'[c][g] = IF c = d /\ g = e /\ kv[d][e] # Standing(d, e) THEN Standing(d, e) ELSE disk[c][g]
           /\ UNCHANGED <<dir, from, srv, sizes, foreign, claimed, jobs, put, read, stream, proved, weak>>
           /\ \A k \in Instances : k # i => look'[k] = look[k]
           /\ look'[i].phase = look[i].phase /\ look'[i].todo = look[i].todo \ {e} /\ look'[i].took = look[i].took /\ look'[i].refused = look[i].refused
           /\ look'[i].as = look[i].as /\ look'[i].left = look[i].left /\ look'[i].at = d /\ look'[i].sweep = look[i].sweep /\ look'[i].mv = look[i].mv
           /\ look[i].retain => look'[i].retain
           /\ look[i].unread \subseteq look'[i].unread
           /\ look'[i].retain \/ e \in look'[i].unread \/ (TakenAs(i, d, e) # Mine(i) /\ ~srv[i].cfg.proved) \/ Standing(d, e) # WholeFor(TakenAs(i, d, e))
<1> DEFINE d == look[i].at
<1>1. d \in Instances /\ look[i].phase = "adopt" /\ e \in look[i].todo /\ Readable(d, e)
  BY LookedT DEF AdoptPasses, Looks
<1>2. Settled(d, e, Standing(d, e)) /\ UNCHANGED <<dir, from, srv, sizes, foreign, claimed, jobs, put, read, stream, proved, weak>> /\ look \in [Instances -> Look]
  BY DEF AdoptPasses, TypeOK, store, io, ghosts
<1>3. \A c \in Instances, g \in Entries :
         /\ kv'[c][g] = IF c = d /\ g = e THEN Standing(d, e) ELSE kv[c][g]
         /\ disk'[c][g] = IF c = d /\ g = e /\ kv[d][e] # Standing(d, e) THEN Standing(d, e) ELSE disk[c][g]
  BY <1>1, <1>2, SettledE
<1>4. PICK failed \in BOOLEAN, unread \in {{}, {e}} :
         /\ Passes(i, e, failed, unread)
         /\ failed \/ e \in unread \/ (TakenAs(i, d, e) # Mine(i) /\ ~srv[i].cfg.proved) \/ Standing(d, e) # WholeFor(TakenAs(i, d, e))
  BY DEF AdoptPasses
<1>5. look' = [look EXCEPT ![i] = [look[i] EXCEPT !.todo = @ \ {e}, !.retain = @ \/ failed, !.unread = @ \cup unread]]
  BY <1>4 DEF Passes
<1>6. /\ \A k \in Instances : k # i => look'[k] = look[k]
      /\ look'[i].phase = look[i].phase /\ look'[i].todo = look[i].todo \ {e} /\ look'[i].took = look[i].took /\ look'[i].refused = look[i].refused
      /\ look'[i].as = look[i].as /\ look'[i].left = look[i].left /\ look'[i].at = d /\ look'[i].sweep = look[i].sweep /\ look'[i].mv = look[i].mv
      /\ look'[i].retain = (look[i].retain \/ failed) /\ look'[i].unread = look[i].unread \cup unread
  BY <1>2, <1>5 DEF Look
<1> QED
  BY <1>1, <1>2, <1>3, <1>4, <1>6
LEMMA AdoptTakesE ==
    ASSUME TypeOK, NEW i \in Instances, NEW e \in Entries, AdoptTakes(i, e)
    PROVE  LET d == look[i].at IN
           /\ d \in Instances /\ look[i].phase = "adopt" /\ e \in look[i].todo /\ Readable(d, e) /\ Standing(d, e) = WholeFor(TakenAs(i, d, e))
           /\ TakenAs(i, d, e) = Mine(i) \/ (srv[i].cfg.proved /\ dir[i].there)
           /\ \A c \in Instances, g \in Entries :
                /\ kv'[c][g] = IF c = d /\ g = e THEN WholeFor(TakenAs(i, d, e)) ELSE kv[c][g]
                /\ disk'[c][g] = IF c = d /\ g = e /\ kv[d][e] # WholeFor(TakenAs(i, d, e)) THEN WholeFor(TakenAs(i, d, e)) ELSE disk[c][g]
                /\ from'[c][g] = IF c = i /\ g = e /\ TakenAs(i, d, e) # Mine(i) THEN TakenAs(i, d, e) ELSE from[c][g]
           /\ UNCHANGED <<dir, srv, sizes, foreign, claimed, jobs, put, read, stream, proved, weak>>
           /\ \A k \in Instances : k # i => look'[k] = look[k]
           /\ look'[i].phase = "move" /\ look'[i].todo = look[i].todo /\ look'[i].took = look[i].took /\ look'[i].refused = look[i].refused
           /\ look'[i].as = TakenAs(i, d, e) /\ look'[i].left = look[i].left /\ look'[i].at = d /\ look'[i].sweep = look[i].sweep /\ look'[i].mv = e
           /\ look'[i].retain = look[i].retain /\ look'[i].unread = look[i].unread
<1> DEFINE d == look[i].at
<1> DEFINE as == TakenAs(i, d, e)
<1>1. d \in Instances /\ look[i].phase = "adopt" /\ e \in look[i].todo /\ Readable(d, e) /\ Standing(d, e) = WholeFor(as) /\ (as = Mine(i) \/ (srv[i].cfg.proved /\ dir[i].there))
  BY LookedT DEF AdoptTakes, Looks
<1>2. Settled(d, e, WholeFor(as)) /\ UNCHANGED <<dir, srv, sizes, foreign, claimed, jobs, put, read, stream, proved, weak>> /\ look \in [Instances -> Look]
      /\ from \in [Instances -> [Entries -> Build]]
  BY DEF AdoptTakes, TypeOK, store, io, ghosts
<1>3. /\ look' = [look EXCEPT ![i] = [look[i] EXCEPT !.phase = "move", !.mv = e, !.as = as]]
      /\ from' = [from EXCEPT ![i][e] = IF as = Mine(i) THEN @ ELSE as]
  BY DEF AdoptTakes
<1> HIDE DEF as
<1>4. \A c \in Instances, g \in Entries :
         /\ kv'[c][g] = IF c = d /\ g = e THEN WholeFor(as) ELSE kv[c][g]
         /\ disk'[c][g] = IF c = d /\ g = e /\ kv[d][e] # WholeFor(as) THEN WholeFor(as) ELSE disk[c][g]
  <2> DEFINE w == WholeFor(as)
  <2>0. d \in Instances /\ Settled(d, e, w)
    BY <1>1, <1>2
  <2> HIDE DEF w
  <2>1. \A c \in Instances, g \in Entries :
           /\ kv'[c][g] = IF c = d /\ g = e THEN w ELSE kv[c][g]
           /\ disk'[c][g] = IF c = d /\ g = e /\ kv[c][g] # w THEN w ELSE disk[c][g]
    BY <2>0, SettledE
  <2> QED
    BY ZenonT(60), <2>1 DEF w
<1>5. \A c \in Instances, g \in Entries : from'[c][g] = IF c = i /\ g = e /\ as # Mine(i) THEN as ELSE from[c][g]
  BY <1>2, <1>3
<1>6. /\ \A k \in Instances : k # i => look'[k] = look[k]
      /\ look'[i].phase = "move" /\ look'[i].todo = look[i].todo /\ look'[i].took = look[i].took /\ look'[i].refused = look[i].refused
      /\ look'[i].as = as /\ look'[i].left = look[i].left /\ look'[i].at = d /\ look'[i].sweep = look[i].sweep /\ look'[i].mv = e
      /\ look'[i].retain = look[i].retain /\ look'[i].unread = look[i].unread
  BY <1>2, <1>3 DEF Look
<1> QED
  BY <1>1, <1>2, <1>4, <1>5, <1>6 DEF as
LEMMA ClaimKeptE ==
    ASSUME TypeOK, NEW i \in Instances, ClaimKept(i)
    PROVE  LET e == read[i].job.e IN
           /\ e \in Entries /\ read[i].at = "settle" /\ Serving(i) /\ kv[i][e] # NoFile /\ ClaimedBy(i) # NoBuild
           /\ \A c \in Instances, g \in Entries :
                /\ kv'[c][g] = IF c = i /\ g = e THEN WholeFor(ClaimedBy(i)) ELSE kv[c][g]
                /\ disk'[c][g] = IF c = i /\ g = e /\ kv[i][e] # WholeFor(ClaimedBy(i)) THEN WholeFor(ClaimedBy(i)) ELSE disk[c][g]
                /\ foreign'[c][g] = IF c = i /\ g = e /\ ClaimedBy(i) = Mine(i) THEN NoBuild ELSE foreign[c][g]
           /\ UNCHANGED <<dir, from, srv, sizes, claimed, jobs, put, stream, look, proved, weak>>
           /\ \A k \in Instances : read'[k] = IF k = i THEN NoRead ELSE read[k]
<1> DEFINE e == read[i].job.e
<1>1. e \in Entries /\ read[i].at = "settle" /\ Serving(i) /\ kv[i][e] # NoFile /\ ClaimedBy(i) # NoBuild
  BY JobT DEF ClaimKept, Rewriting
<1>2. Settled(i, e, WholeFor(ClaimedBy(i))) /\ UNCHANGED <<dir, from, srv, sizes, claimed, jobs, put, stream, look, proved, weak>>
  BY DEF ClaimKept, ghosts
<1>3. /\ foreign' = [foreign EXCEPT ![i][e] = IF ClaimedBy(i) = Mine(i) THEN NoBuild ELSE @] /\ foreign \in [Instances -> [Entries -> Build]]
      /\ read' = [read EXCEPT ![i] = NoRead] /\ read \in [Instances -> Read]
  BY DEF ClaimKept, ReadEnds, TypeOK
<1>4. \A c \in Instances, g \in Entries :
         /\ kv'[c][g] = IF c = i /\ g = e THEN WholeFor(ClaimedBy(i)) ELSE kv[c][g]
         /\ disk'[c][g] = IF c = i /\ g = e /\ kv[i][e] # WholeFor(ClaimedBy(i)) THEN WholeFor(ClaimedBy(i)) ELSE disk[c][g]
  BY <1>1, <1>2, SettledE
<1>5. \A c \in Instances, g \in Entries : foreign'[c][g] = IF c = i /\ g = e /\ ClaimedBy(i) = Mine(i) THEN NoBuild ELSE foreign[c][g]
  BY <1>1, <1>3
<1>6. \A k \in Instances : read'[k] = IF k = i THEN NoRead ELSE read[k]
  BY <1>3
<1> QED
  BY <1>1, <1>2, <1>4, <1>5, <1>6
LEMMA ReadAtE ==
    ASSUME TypeOK, NEW i \in Instances, NEW at, ReadAt(i, at)
    PROVE  (\A k \in Instances : k # i => read'[k] = read[k]) /\ read'[i].at = at /\ read'[i].job = read[i].job /\ read'[i].theirs = read[i].theirs
<1>1. read \in [Instances -> Read] /\ read' = [read EXCEPT ![i].at = at]
  BY DEF TypeOK, ReadAt
<1> QED
  BY <1>1 DEF Read
LEMMA RewriteFieldE ==
    ASSUME TypeOK, NEW i \in Instances, RewriteField(i)
    PROVE  LET e == read[i].job.e IN
           /\ e \in Entries /\ read[i].at = "field" /\ Serving(i) /\ kv[i][e].f = read[i].theirs
           /\ \A c \in Instances, g \in Entries : kv'[c][g] = IF c = i /\ g = e THEN [f |-> Mine(i), s |-> kv[i][e].s] ELSE kv[c][g]
           /\ UNCHANGED <<dir, from, disk, srv, sizes, foreign, claimed, jobs, put, stream, look, proved, weak>>
           /\ \A k \in Instances : k # i => read'[k] = read[k]
           /\ read'[i].at = "sum" /\ read'[i].job = read[i].job /\ read'[i].theirs = read[i].theirs
<1> DEFINE e == read[i].job.e
<1>1. e \in Entries /\ read[i].at = "field" /\ Serving(i) /\ kv[i][e].f = read[i].theirs
  BY JobT DEF RewriteField, Rewriting
<1>2. /\ kv' = [kv EXCEPT ![i][e] = [kv[i][e] EXCEPT !.f = Mine(i)]] /\ kv \in [Instances -> [Entries -> Header]]
      /\ UNCHANGED <<dir, from, disk, srv, sizes, foreign, claimed, jobs, put, stream, look, proved, weak>>
  BY DEF RewriteField, TypeOK, store, ghosts
<1>3. [kv[i][e] EXCEPT !.f = Mine(i)] = [f |-> Mine(i), s |-> kv[i][e].s]
  <2>1. kv[i][e] \in Header
    BY <1>1, <1>2
  <2> QED
    BY <2>1 DEF Header
<1>4. \A c \in Instances, g \in Entries : kv'[c][g] = IF c = i /\ g = e THEN [f |-> Mine(i), s |-> kv[i][e].s] ELSE kv[c][g]
  BY <1>1, <1>2, <1>3, Cell
<1>5. ReadAt(i, "sum")
  BY DEF RewriteField
<1> QED
  BY <1>1, <1>2, <1>4, <1>5, ReadAtE
LEMMA RewriteSumE ==
    ASSUME TypeOK, NEW i \in Instances, RewriteSum(i)
    PROVE  LET e == read[i].job.e IN
           /\ e \in Entries /\ read[i].at = "sum" /\ Serving(i)
           /\ \A c \in Instances, g \in Entries : kv'[c][g] = IF c = i /\ g = e /\ kv[c][g] # NoFile THEN WholeFor(Mine(i)) ELSE kv[c][g]
           /\ UNCHANGED <<dir, from, disk, srv, sizes, foreign, claimed, jobs, put, stream, look, proved, weak>>
           /\ \A k \in Instances : k # i => read'[k] = read[k]
           /\ read'[i].at = "sync" /\ read'[i].job = read[i].job /\ read'[i].theirs = read[i].theirs
<1> DEFINE e == read[i].job.e
<1>1. e \in Entries /\ read[i].at = "sum" /\ Serving(i)
  BY JobT DEF RewriteSum, Rewriting
<1>2. /\ kv' = [kv EXCEPT ![i][e] = IF @ = NoFile THEN @ ELSE WholeFor(Mine(i))] /\ kv \in [Instances -> [Entries -> Header]]
      /\ UNCHANGED <<dir, from, disk, srv, sizes, foreign, claimed, jobs, put, stream, look, proved, weak>>
  BY DEF RewriteSum, TypeOK, store, ghosts
<1>4. \A c \in Instances, g \in Entries : kv'[c][g] = IF c = i /\ g = e /\ kv[c][g] # NoFile THEN WholeFor(Mine(i)) ELSE kv[c][g]
  BY <1>1, <1>2
<1>5. ReadAt(i, "sync")
  BY DEF RewriteSum
<1> QED
  BY <1>1, <1>2, <1>4, <1>5, ReadAtE
LEMMA PutRenameE ==
    ASSUME TypeOK, NEW i \in Instances, PutRename(i)
    PROVE  LET e == put[i].job.e IN
           /\ e \in Entries /\ put[i].at = "synced" /\ Serving(i) /\ look[i].sweep = "no" /\ read[i].at = "none" /\ dir[i].there
           /\ \A c \in Instances, g \in Entries : kv'[c][g] = IF c = i /\ g = e THEN WholeFor(Mine(i)) ELSE kv[c][g]
           /\ \A c \in Instances : dir'[c].there = dir[c].there /\ dir'[c].lock = dir[c].lock /\ dir'[c].kept = dir[c].kept /\ dir'[c].old = dir[c].old /\ dir'[c].id = dir[c].id
           /\ UNCHANGED <<from, disk, srv, sizes, foreign, claimed, jobs, read, stream, look, proved, weak>>
           /\ \A k \in Instances : k # i => put'[k] = put[k]
           /\ put'[i].at = "renamed" /\ put'[i].job = put[i].job
<1> DEFINE e == put[i].job.e
<1>1. e \in Entries /\ put[i].at = "synced" /\ Serving(i) /\ look[i].sweep = "no" /\ read[i].at = "none" /\ dir[i].there
  BY JobT DEF PutRename, Idle
<1>2. /\ kv' = [kv EXCEPT ![i][e] = WholeFor(Mine(i))] /\ kv \in [Instances -> [Entries -> Header]]
      /\ UNCHANGED <<from, disk, srv, sizes, foreign, claimed, jobs, read, stream, look, proved, weak>>
  BY DEF PutRename, TypeOK, store, ghosts
<1>3. \A c \in Instances, g \in Entries : kv'[c][g] = IF c = i /\ g = e THEN WholeFor(Mine(i)) ELSE kv[c][g]
  BY <1>1, <1>2
<1>4. dir' = [dir EXCEPT ![i].tmp = @ \ {put[i].job.e}] /\ dir \in [Instances -> Directory]
  BY DEF PutRename, Untemped, TypeOK
<1>5. \A c \in Instances : dir'[c].there = dir[c].there /\ dir'[c].lock = dir[c].lock /\ dir'[c].kept = dir[c].kept /\ dir'[c].old = dir[c].old /\ dir'[c].id = dir[c].id
  BY <1>4 DEF Directory
<1>6. put' = [put EXCEPT ![i].at = "renamed"] /\ put \in [Instances -> Write]
  BY DEF PutRename, TypeOK
<1>7. (\A k \in Instances : k # i => put'[k] = put[k]) /\ put'[i].at = "renamed" /\ put'[i].job = put[i].job
  BY <1>6 DEF Write
<1> QED
  BY <1>1, <1>2, <1>3, <1>5, <1>7
LEMMA UnlockedE ==
    ASSUME TypeOK, NEW I, Unlocked(I)
    PROVE  \A d \in Instances : /\ dir'[d].there = dir[d].there /\ dir'[d].kept = dir[d].kept /\ dir'[d].old = dir[d].old /\ dir'[d].id = dir[d].id
                                /\ dir'[d].lock = IF dir[d].lock \in I THEN Nobody ELSE dir[d].lock
<1>1. dir \in [Instances -> Directory] /\ dir' = [d \in Instances |-> [dir[d] EXCEPT !.lock = IF @ \in I THEN Nobody ELSE @]]
  BY DEF TypeOK, Unlocked
<1> QED
  BY <1>1 DEF Directory
LEMMA KillE ==
    ASSUME TypeOK, NEW i \in Instances, Kill(i)
    PROVE  /\ Live(i)
           /\ \A d \in Instances : /\ dir'[d].there = dir[d].there /\ dir'[d].kept = dir[d].kept /\ dir'[d].old = dir[d].old /\ dir'[d].id = dir[d].id
                                   /\ dir'[d].lock = IF dir[d].lock = i THEN Nobody ELSE dir[d].lock
           /\ srv'[i].pc = "ended" /\ srv'[i].cfg = srv[i].cfg
           /\ sizes'[i] = {} /\ foreign'[i] = Unmarked /\ claimed'[i] = {} /\ jobs'[i] = <<>>
           /\ put'[i] = NoWrite /\ read'[i] = NoRead /\ stream'[i] = NoStream /\ look'[i] = NoLook
           /\ \A k \in Instances : k # i => /\ srv'[k] = srv[k] /\ sizes'[k] = sizes[k] /\ foreign'[k] = foreign[k] /\ claimed'[k] = claimed[k] /\ jobs'[k] = jobs[k]
                                            /\ put'[k] = put[k] /\ read'[k] = read[k] /\ stream'[k] = stream[k] /\ look'[k] = look[k]
           /\ UNCHANGED <<kv, from, disk, proved>>
           /\ weak \subseteq weak' /\ (read[i].at = "sync" => read[i].job.e \in weak')
<1>1. Live(i) /\ Unlocked({i}) /\ Memory({i}) /\ UNCHANGED <<kv, from, disk, proved>> /\ weak \subseteq weak' /\ (read[i].at = "sync" => read[i].job.e \in weak')
  BY DEF Kill, files
<1>2. srv' = [srv EXCEPT ![i].pc = "ended"] /\ srv \in [Instances -> Server]
  BY DEF Kill, Goes, TypeOK
<1>3. srv'[i].pc = "ended" /\ srv'[i].cfg = srv[i].cfg /\ (\A k \in Instances : k # i => srv'[k] = srv[k])
  BY <1>2 DEF Server
<1>4. /\ sizes'[i] = {} /\ foreign'[i] = Unmarked /\ claimed'[i] = {} /\ jobs'[i] = <<>>
      /\ put'[i] = NoWrite /\ read'[i] = NoRead /\ stream'[i] = NoStream /\ look'[i] = NoLook
  BY <1>1 DEF Memory
<1>5. \A k \in Instances : k # i => /\ sizes'[k] = sizes[k] /\ foreign'[k] = foreign[k] /\ claimed'[k] = claimed[k] /\ jobs'[k] = jobs[k]
                                    /\ put'[k] = put[k] /\ read'[k] = read[k] /\ stream'[k] = stream[k] /\ look'[k] = look[k]
  BY <1>1 DEF Memory
<1>6. \A d \in Instances : /\ dir'[d].there = dir[d].there /\ dir'[d].kept = dir[d].kept /\ dir'[d].old = dir[d].old /\ dir'[d].id = dir[d].id
                           /\ dir'[d].lock = IF dir[d].lock = i THEN Nobody ELSE dir[d].lock
  BY <1>1, UnlockedE
<1> QED
  BY <1>1, <1>3, <1>4, <1>5, <1>6
LEMMA TakePutE ==
    ASSUME TypeOK, NEW i \in Instances, TakePut(i)
    PROVE  /\ Serving(i) /\ look[i].sweep = "no" /\ read[i].at = "none" /\ put[i].at = "none" /\ Reads(i) = {} /\ dir[i].there
           /\ jobs[i] \in Seq(Job) /\ jobs[i] # <<>>
           /\ \A c \in Instances : dir'[c].there = dir[c].there /\ dir'[c].lock = dir[c].lock /\ dir'[c].kept = dir[c].kept /\ dir'[c].old = dir[c].old /\ dir'[c].id = dir[c].id
           /\ UNCHANGED <<kv, from, disk, srv, sizes, foreign, claimed, read, stream, look, proved, weak>>
           /\ \A k \in Instances : k # i => put'[k] = put[k] /\ jobs'[k] = jobs[k]
           /\ put'[i].at = "tmp" /\ put'[i].job = jobs[i][1] /\ jobs'[i] \in Seq(Job) /\ Len(jobs'[i]) = Len(jobs[i]) - 1
           /\ \A n \in 1 .. Len(jobs[i]) - 1 : jobs'[i][n] = jobs[i][n + 1]
<1>1. /\ Serving(i) /\ look[i].sweep = "no" /\ read[i].at = "none" /\ put[i].at = "none" /\ Reads(i) = {} /\ dir[i].there
      /\ jobs[i] \in Seq(Job) /\ jobs[i] # <<>>
  BY DEF TakePut, ToPut, Idle, TypeOK
<1>2. /\ put' = [put EXCEPT ![i] = [at |-> "tmp", job |-> Head(jobs[i])]] /\ jobs' = [jobs EXCEPT ![i] = Tail(@)]
      /\ dir' = [dir EXCEPT ![i].tmp = @ \cup {Head(jobs[i]).e}]
      /\ dir \in [Instances -> Directory] /\ put \in [Instances -> Write] /\ jobs \in [Instances -> Seq(Job)]
      /\ UNCHANGED <<kv, from, disk, srv, sizes, foreign, claimed, read, stream, look, proved, weak>>
  BY DEF TakePut, ToPut, TypeOK, files, store, ghosts
<1>3. \A c \in Instances : dir'[c].there = dir[c].there /\ dir'[c].lock = dir[c].lock /\ dir'[c].kept = dir[c].kept /\ dir'[c].old = dir[c].old /\ dir'[c].id = dir[c].id
  BY <1>2 DEF Directory
<1>4. \A k \in Instances : k # i => put'[k] = put[k] /\ jobs'[k] = jobs[k]
  BY <1>2
<1>5. put'[i].at = "tmp" /\ put'[i].job = Head(jobs[i]) /\ jobs'[i] = Tail(jobs[i])
  BY <1>2
<1>6. Head(jobs[i]) = jobs[i][1] /\ Tail(jobs[i]) \in Seq(Job) /\ Len(Tail(jobs[i])) = Len(jobs[i]) - 1 /\ (\A n \in 1 .. Len(jobs[i]) - 1 : Tail(jobs[i])[n] = jobs[i][n + 1])
  BY <1>1, HeadTailProperties
<1> QED
  BY <1>1, <1>2, <1>3, <1>4, <1>5, <1>6
LEMMA TakeReadE ==
    ASSUME TypeOK, NEW i \in Instances, TakeRead(i)
    PROVE  LET j == jobs[i][FirstRead(i)] IN
           /\ Serving(i) /\ look[i].sweep = "no" /\ read[i].at = "none" /\ j \in Job /\ j.kind # "put" /\ FirstRead(i) \in 1 .. Len(jobs[i]) /\ jobs[i] \in Seq(Job)
           /\ UNCHANGED <<dir, kv, from, disk, srv, sizes, foreign, claimed, put, stream, look, proved, weak>>
           /\ \A k \in Instances : k # i => read'[k] = read[k] /\ jobs'[k] = jobs[k]
           /\ jobs'[i] \in Seq(Job) /\ Len(jobs'[i]) = Len(jobs[i]) - 1
           /\ \A n \in 1 .. Len(jobs[i]) - 1 : jobs'[i][n] = IF n < FirstRead(i) THEN jobs[i][n] ELSE jobs[i][n + 1]
           /\ IF j.e \in sizes[i] THEN read'[i].at = "check" /\ read'[i].job = j ELSE read'[i] = read[i]
<1> DEFINE j == jobs[i][FirstRead(i)]
<1>1. Serving(i) /\ look[i].sweep = "no" /\ read[i].at = "none" /\ Reads(i) # {} /\ jobs[i] \in Seq(Job)
  BY DEF TakeRead, Idle, TypeOK
<1>2. FirstRead(i) \in 1 .. Len(jobs[i]) /\ FirstRead(i) \in Reads(i)
  BY <1>1, FirstReadT
<1>3. j \in Job /\ j.kind # "put"
  BY <1>1, <1>2 DEF Reads
<1>4. /\ jobs' = [jobs EXCEPT ![i] = RemoveAt(@, FirstRead(i))] /\ jobs \in [Instances -> Seq(Job)]
      /\ read' = [read EXCEPT ![i] = IF j.e \in sizes[i] THEN [at |-> "check", job |-> j, theirs |-> NoBuild] ELSE @] /\ read \in [Instances -> Read]
      /\ UNCHANGED <<dir, kv, from, disk, srv, sizes, foreign, claimed, put, stream, look, proved, weak>>
  BY DEF TakeRead, TypeOK, files, store, ghosts
<1>5. jobs'[i] = RemoveAt(jobs[i], FirstRead(i)) /\ (\A k \in Instances : k # i => read'[k] = read[k] /\ jobs'[k] = jobs[k])
  BY <1>4
<1>6. IF j.e \in sizes[i] THEN read'[i].at = "check" /\ read'[i].job = j ELSE read'[i] = read[i]
  BY <1>4
<1>7. /\ RemoveAt(jobs[i], FirstRead(i)) \in Seq(Job) /\ Len(RemoveAt(jobs[i], FirstRead(i))) = Len(jobs[i]) - 1
      /\ \A n \in 1 .. Len(jobs[i]) - 1 : RemoveAt(jobs[i], FirstRead(i))[n] = IF n < FirstRead(i) THEN jobs[i][n] ELSE jobs[i][n + 1]
  BY <1>1, <1>2, Removal
<1> QED
  BY <1>1, <1>2, <1>3, <1>4, <1>5, <1>6, <1>7
LEMMA WholeIsFile == ASSUME NEW b, b # NoBuild PROVE WholeFor(b) # NoFile
  BY DEF WholeFor, NoFile
LEMMA GoesE == ASSUME TypeOK, NEW i \in Instances, NEW pc, Goes(i, pc)
               PROVE  (\A k \in Instances : k # i => srv'[k] = srv[k]) /\ srv'[i].pc = pc /\ srv'[i].cfg = srv[i].cfg
<1>1. srv \in [Instances -> Server] /\ srv' = [srv EXCEPT ![i].pc = pc]
  BY DEF TypeOK, Goes
<1> QED
  BY <1>1 DEF Server
LEMMA DropsE == ASSUME TypeOK, NEW i \in Instances, NEW e \in Entries, Removed(i, e), Forgotten(i, e)
                PROVE \A c \in Instances, g \in Entries : /\ kv'[c][g] = IF c = i /\ g = e THEN NoFile ELSE kv[c][g]
                                                          /\ disk'[c][g] = IF c = i /\ g = e THEN NoFile ELSE disk[c][g]
                                                          /\ from'[c][g] = IF c = i /\ g = e THEN NoBuild ELSE from[c][g]
                                                          /\ foreign'[c][g] = IF c = i /\ g = e THEN NoBuild ELSE foreign[c][g]
                                                          /\ g \in sizes'[c] <=> g \in sizes[c] /\ ~(c = i /\ g = e)
<1>1. \A c \in Instances, g \in Entries : /\ foreign'[c][g] = IF c = i /\ g = e THEN NoBuild ELSE foreign[c][g]
                                          /\ g \in sizes'[c] <=> g \in sizes[c] /\ ~(c = i /\ g = e)
  BY DEF Forgotten, TypeOK
<1> QED
  BY <1>1, RemovedE
LEMMA OpenBadE == ASSUME TypeOK, NEW i \in Instances, OpenBad(i)
                  PROVE  /\ stream[i].on /\ stream[i].e \in Entries /\ Serving(i) /\ kv[i][stream[i].e] # WholeFor(stream[i].id)
                         /\ Removed(i, stream[i].e) /\ Forgotten(i, stream[i].e)
                         /\ UNCHANGED <<dir, srv, claimed, jobs, put, read, look, proved, weak>>
                         /\ \A k \in Instances : stream'[k] = IF k = i THEN NoStream ELSE stream[k]
<1>1. stream \in [Instances -> Stream]
  BY DEF TypeOK
<1>2. stream[i].e \in Entries
  BY <1>1 DEF Stream
<1>3. /\ stream[i].on /\ Serving(i) /\ kv[i][stream[i].e] # WholeFor(stream[i].id) /\ stream' = [stream EXCEPT ![i] = NoStream]
      /\ Removed(i, stream[i].e) /\ Forgotten(i, stream[i].e)
      /\ UNCHANGED <<dir, srv, claimed, jobs, put, read, look, proved, weak>>
  BY DEF OpenBad, OpenEnds, io, ghosts
<1> QED
  BY <1>1, <1>2, <1>3
LEMMA DroppedE == ASSUME TypeOK, NEW i \in Instances, ReadBad(i) \/ ClaimLost(i)
                  PROVE  /\ read[i].at \in {"check", "settle"} /\ read[i].job.e \in Entries /\ Serving(i)
                         /\ Removed(i, read[i].job.e) /\ Forgotten(i, read[i].job.e)
                         /\ UNCHANGED <<dir, srv, claimed, jobs, put, stream, look, proved, weak>>
                         /\ \A k \in Instances : read'[k] = IF k = i THEN NoRead ELSE read[k]
<1>1. read[i].job.e \in Entries /\ read \in [Instances -> Read]
  BY JobT DEF TypeOK
<1>2. /\ read[i].at \in {"check", "settle"} /\ Serving(i) /\ read' = [read EXCEPT ![i] = NoRead]
      /\ Removed(i, read[i].job.e) /\ Forgotten(i, read[i].job.e)
      /\ UNCHANGED <<dir, srv, claimed, jobs, put, stream, look, proved, weak>>
  BY DEF ReadBad, ClaimLost, Rewriting, Dropped, ReadEnds, ghosts
<1> QED
  BY <1>1, <1>2
LEMMA CancelledE == ASSUME TypeOK, NEW i \in Instances, NEW e \in Entries, Cancelled(i, e)
                    PROVE  /\ \A k \in Instances : k # i => jobs'[k] = jobs[k] /\ put'[k] = put[k]
                           /\ DOMAIN jobs'[i] = DOMAIN jobs[i]
                           /\ \A n \in DOMAIN jobs[i] : jobs'[i][n].kind = jobs[i][n].kind /\ jobs'[i][n].e = jobs[i][n].e
                           /\ put'[i].at = put[i].at /\ put'[i].job.e = put[i].job.e
<1>1. /\ jobs' = [jobs EXCEPT ![i] = [n \in DOMAIN @ |-> IF IsPut(jobs[i][n], e) THEN [jobs[i][n] EXCEPT !.cancelled = TRUE] ELSE jobs[i][n]]]
      /\ put' = [put EXCEPT ![i].job.cancelled = @ \/ (put[i].at # "none" /\ put[i].job.e = e)]
      /\ jobs \in [Instances -> Seq(Job)] /\ put \in [Instances -> Write]
  BY DEF Cancelled, TypeOK
<1>2. jobs'[i] = [n \in DOMAIN jobs[i] |-> IF IsPut(jobs[i][n], e) THEN [jobs[i][n] EXCEPT !.cancelled = TRUE] ELSE jobs[i][n]]
  BY <1>1
<1>3. \A n \in DOMAIN jobs[i] : jobs[i][n] \in Job
  BY <1>1
<1>4. \A n \in DOMAIN jobs[i] : jobs'[i][n].kind = jobs[i][n].kind /\ jobs'[i][n].e = jobs[i][n].e
  BY <1>2, <1>3 DEF Job
<1>5. put'[i].at = put[i].at /\ put'[i].job.e = put[i].job.e
  BY <1>1 DEF Write, Job
<1>6. \A k \in Instances : k # i => jobs'[k] = jobs[k] /\ put'[k] = put[k]
  BY <1>1
<1>7. DOMAIN jobs'[i] = DOMAIN jobs[i]
  BY <1>2
<1> QED
  BY <1>4, <1>5, <1>6, <1>7
LEMMA EvictE == ASSUME TypeOK, NEW i \in Instances, NEW e \in Entries, Evict(i, e)
                PROVE  /\ srv[i].pc = "run" /\ e \in sizes[i] /\ Cancelled(i, e) /\ Removed(i, e) /\ Forgotten(i, e)
                       /\ UNCHANGED <<dir, srv, claimed, read, stream, look, proved, weak>>
  BY DEF Evict, ghosts
LEMMA StopE == ASSUME TypeOK, NEW i \in Instances, Stop(i)
               PROVE  /\ srv[i].pc = "run" /\ ~stream[i].on
                      /\ \A k \in Instances : k # i => jobs'[k] = jobs[k] /\ srv'[k] = srv[k]
                      /\ srv'[i].pc = "stopping" /\ srv'[i].cfg = srv[i].cfg
                      /\ DOMAIN jobs'[i] = DOMAIN jobs[i]
                      /\ \A n \in DOMAIN jobs[i] : jobs'[i][n].kind = jobs[i][n].kind /\ jobs'[i][n].e = jobs[i][n].e
                      /\ UNCHANGED <<dir, kv, from, disk, sizes, foreign, claimed, put, read, stream, look, proved, weak>>
<1>1. /\ srv[i].pc = "run" /\ ~stream[i].on /\ Goes(i, "stopping")
      /\ jobs' = [jobs EXCEPT ![i] = [k \in DOMAIN @ |-> [jobs[i][k] EXCEPT !.cancelled = TRUE]]] /\ jobs \in [Instances -> Seq(Job)]
      /\ UNCHANGED <<dir, kv, from, disk, sizes, foreign, claimed, put, read, stream, look, proved, weak>>
  BY DEF Stop, TypeOK, files, store, ghosts
<1>2. jobs'[i] = [n \in DOMAIN jobs[i] |-> [jobs[i][n] EXCEPT !.cancelled = TRUE]]
  BY <1>1
<1>3. \A n \in DOMAIN jobs[i] : jobs[i][n] \in Job
  BY <1>1
<1>4. \A n \in DOMAIN jobs[i] : jobs'[i][n].kind = jobs[i][n].kind /\ jobs'[i][n].e = jobs[i][n].e
  BY <1>2, <1>3 DEF Job
<1>5. \A k \in Instances : k # i => jobs'[k] = jobs[k]
  BY <1>1
<1>6. DOMAIN jobs'[i] = DOMAIN jobs[i]
  BY <1>2
<1> QED
  BY <1>1, <1>4, <1>5, <1>6, GoesE
LEMMA RemovedAllE == ASSUME TypeOK, NEW d \in Instances, RemovedAll(d)
                     PROVE  /\ \A c \in Instances, g \in Entries : /\ kv'[c][g] = IF c = d THEN NoFile ELSE kv[c][g]
                                                                   /\ disk'[c][g] = IF c = d THEN NoFile ELSE disk[c][g]
                                                                   /\ from'[c][g] = IF c = d THEN NoBuild ELSE from[c][g]
                            /\ \A c \in Instances : c # d => dir'[c] = dir[c]
                            /\ ~dir'[d].there /\ ~dir'[d].kept /\ ~dir'[d].old /\ dir'[d].id = NoBuild /\ dir'[d].lock = dir[d].lock
<1>1. /\ dir' = [dir EXCEPT ![d] = [NoDirectory EXCEPT !.lock = dir[d].lock]] /\ dir \in [Instances -> Directory]
  BY DEF RemovedAll, TypeOK
<1>2. /\ \A c \in Instances : c # d => dir'[c] = dir[c]
      /\ ~dir'[d].there /\ ~dir'[d].kept /\ ~dir'[d].old /\ dir'[d].id = NoBuild /\ dir'[d].lock = dir[d].lock
  BY <1>1 DEF NoDirectory
<1>3. \A c \in Instances, g \in Entries : /\ kv'[c][g] = IF c = d THEN NoFile ELSE kv[c][g]
                                          /\ disk'[c][g] = IF c = d THEN NoFile ELSE disk[c][g]
                                          /\ from'[c][g] = IF c = d THEN NoBuild ELSE from[c][g]
  BY DEF RemovedAll, TypeOK, NoFiles, Unmarked
<1> QED
  BY <1>2, <1>3
LEMMA RemoveOwnE == ASSUME TypeOK, NEW i \in Instances, RemoveOwn(i)
                    PROVE  /\ srv[i].pc = "removing" /\ RemovedAll(i) /\ Goes(i, "ended")
                           /\ UNCHANGED <<sizes, foreign, claimed, jobs, put, read, stream, look, proved, weak>>
  BY DEF RemoveOwn, store, io, ghosts
LEMMA LookEndedE == ASSUME TypeOK, NEW i \in Instances, look' = [look EXCEPT ![i] = LookEnded(look[i])]
                    PROVE  /\ \A k \in Instances : k # i => look'[k] = look[k]
                           /\ look'[i].sweep = look[i].sweep /\ look'[i].left = look[i].left /\ look'[i].at = Nobody /\ look'[i].phase = "adopt"
                           /\ look'[i].todo = {} /\ look'[i].as = NoBuild /\ ~look'[i].retain /\ ~look'[i].refused /\ ~look'[i].took
<1>1. look \in [Instances -> Look]
  BY DEF TypeOK
<1> QED
  BY <1>1 DEF LookEnded, NoLook
LEMMA SweepRemoveE == ASSUME TypeOK, NEW i \in Instances, SweepRemove(i)
                      PROVE  /\ look[i].at \in Instances /\ look[i].phase = "remove" /\ RemovedAll(look[i].at) /\ look' = [look EXCEPT ![i] = LookEnded(look[i])]
                             /\ UNCHANGED <<srv, sizes, foreign, claimed, jobs, put, read, stream, proved, weak>>
  BY LookedT DEF SweepRemove, store, io, ghosts
LEMMA SweepDoneE == ASSUME TypeOK, NEW i \in Instances, SweepDone(i)
                    PROVE  /\ look[i].at \in Instances /\ look[i].phase = "adopt" /\ look[i].todo = {}
                           /\ \A c \in Instances : /\ dir'[c].there = dir[c].there /\ dir'[c].kept = dir[c].kept /\ dir'[c].old = dir[c].old /\ dir'[c].id = dir[c].id
                                                   /\ dir'[c].lock = IF c = look[i].at /\ dir[c].lock = i THEN Nobody ELSE dir[c].lock
<1>1. look[i].at \in Instances /\ look[i].phase = "adopt" /\ look[i].todo = {}
  BY LookedT DEF SweepDone
<1>2. dir' = [dir EXCEPT ![look[i].at].lock = IF @ = i THEN Nobody ELSE @] /\ dir \in [Instances -> Directory]
  BY DEF SweepDone, TypeOK
<1>3. \A c \in Instances : /\ dir'[c].there = dir[c].there /\ dir'[c].kept = dir[c].kept /\ dir'[c].old = dir[c].old /\ dir'[c].id = dir[c].id
                           /\ dir'[c].lock = IF c = look[i].at /\ dir[c].lock = i THEN Nobody ELSE dir[c].lock
  BY <1>1, <1>2 DEF Directory
<1> QED
  BY <1>1, <1>3
LEMMA SweepLeaveE == ASSUME TypeOK, NEW i \in Instances, SweepLeave(i)
                     PROVE  /\ SweepDone(i) /\ Spared(i, look[i].at) /\ look' = [look EXCEPT ![i] = LookEnded(look[i])]
                            /\ UNCHANGED <<kv, from, disk, srv, sizes, foreign, claimed, jobs, put, read, stream, proved, weak>>
  BY DEF SweepLeave, files, store, io, ghosts
LEMMA SweepCondemnE == ASSUME TypeOK, NEW i \in Instances, SweepCondemn(i)
                       PROVE  /\ SweepDone(i) /\ ~Spared(i, look[i].at)
                              /\ \A k \in Instances : k # i => look'[k] = look[k]
                              /\ look'[i].sweep = look[i].sweep /\ look'[i].left = look[i].left /\ look'[i].at = look[i].at /\ look'[i].phase = "remove"
                              /\ look'[i].todo = {} /\ look'[i].as = NoBuild /\ ~look'[i].retain /\ ~look'[i].refused /\ ~look'[i].took
                              /\ UNCHANGED <<kv, from, disk, srv, sizes, foreign, claimed, jobs, put, read, stream, proved, weak>>
<1>1. /\ SweepDone(i) /\ ~Spared(i, look[i].at) /\ look' = [look EXCEPT ![i] = [LookEnded(look[i]) EXCEPT !.at = look[i].at, !.phase = "remove"]]
      /\ UNCHANGED <<kv, from, disk, srv, sizes, foreign, claimed, jobs, put, read, stream, proved, weak>> /\ look \in [Instances -> Look]
  BY DEF SweepCondemn, files, store, io, ghosts, TypeOK
<1>2. /\ \A k \in Instances : k # i => look'[k] = look[k]
      /\ look'[i] = [LookEnded(look[i]) EXCEPT !.at = look[i].at, !.phase = "remove"]
  BY <1>1
<1>3. /\ look'[i].sweep = look[i].sweep /\ look'[i].left = look[i].left /\ look'[i].at = look[i].at /\ look'[i].phase = "remove"
      /\ look'[i].todo = {} /\ look'[i].as = NoBuild /\ ~look'[i].retain /\ ~look'[i].refused /\ ~look'[i].took
  BY <1>2 DEF LookEnded, NoLook
<1> QED
  BY <1>1, <1>2, <1>3
SameWork(i) ==
    /\ DOMAIN jobs'[i] = DOMAIN jobs[i] /\ put'[i].at = put[i].at /\ put'[i].job.e = put[i].job.e
    /\ \A n \in DOMAIN jobs[i] : jobs'[i][n].kind = jobs[i][n].kind /\ jobs'[i][n].e = jobs[i][n].e
LEMMA WorkE == ASSUME TypeOK, NEW i \in Instances, (\E e \in Entries : Cancel(i, e) \/ Evict(i, e)) \/ Stop(i)
               PROVE  /\ \A k \in Instances : SameWork(k)
                      /\ UNCHANGED <<dir, claimed, read, stream, look, proved, weak>> /\ (\A k \in Instances : srv'[k].cfg = srv[k].cfg)
                      /\ \A k \in Instances : srv[k].pc # "run" => srv'[k] = srv[k]
<1>1. CASE \E e \in Entries : Cancel(i, e) \/ Evict(i, e)
  <2>1. (\E e \in Entries : Cancelled(i, e)) /\ UNCHANGED <<dir, srv, claimed, read, stream, look, proved, weak>>
    BY <1>1 DEF Cancel, Evict, store, ghosts
  <2>2. \A k \in Instances : SameWork(k)
    BY <2>1, CancelledE DEF SameWork
  <2> QED
    BY <2>1, <2>2
<1>2. CASE Stop(i)
  <2>1. /\ UNCHANGED <<dir, claimed, read, stream, look, proved, weak>> /\ (\A k \in Instances : srv'[k].cfg = srv[k].cfg)
        /\ \A k \in Instances : srv[k].pc # "run" => srv'[k] = srv[k]
    BY <1>2, StopE
  <2>2. \A k \in Instances : SameWork(k)
    BY <1>2, StopE DEF SameWork
  <2> QED
    BY <2>1, <2>2
<1> QED
  BY <1>1, <1>2
LEMMA SameWorkE == ASSUME NEW i, NEW e, SameWork(i)
                   PROVE (Puts(i, e)' <=> Puts(i, e)) /\ (Queues(i, e)' <=> Queues(i, e)) /\ (Writes(i, e)' <=> Writes(i, e)) /\ (Renamed(i, e)' <=> Renamed(i, e))
  BY DEF SameWork, Puts, Queues, Writes, Renamed, IsPut
LEMMA MakeDirectoryE == ASSUME TypeOK, NEW i \in Instances, MakeDirectory(i)
                        PROVE  /\ srv[i].pc = "off" /\ (\A k \in Instances : k # i => srv'[k] = srv[k] /\ dir'[k] = dir[k]) /\ srv'[i].pc = "made"
                               /\ dir'[i].there /\ dir'[i].lock = dir[i].lock /\ dir'[i].kept = dir[i].kept /\ dir'[i].old = dir[i].old /\ dir'[i].id = dir[i].id
                               /\ UNCHANGED <<kv, from, disk, sizes, foreign, claimed, jobs, put, read, stream, look, proved, weak>>
<1>1. /\ srv[i].pc = "off" /\ dir' = [dir EXCEPT ![i].there = TRUE] /\ dir \in [Instances -> Directory] /\ srv \in [Instances -> Server]
      /\ \E c \in Configs[i] : srv' = [srv EXCEPT ![i] = [pc |-> "made", cfg |-> c]]
      /\ UNCHANGED <<kv, from, disk, sizes, foreign, claimed, jobs, put, read, stream, look, proved, weak>>
  BY DEF MakeDirectory, TypeOK, files, store, io, ghosts
<1>2. dir'[i].there /\ dir'[i].lock = dir[i].lock /\ dir'[i].kept = dir[i].kept /\ dir'[i].old = dir[i].old /\ dir'[i].id = dir[i].id
  BY <1>1 DEF Directory
<1>3. (\A k \in Instances : k # i => srv'[k] = srv[k] /\ dir'[k] = dir[k]) /\ srv'[i].pc = "made"
  BY <1>1
<1> QED
  BY <1>1, <1>2, <1>3
LEMMA AdoptLeavesE == ASSUME TypeOK, NEW i \in Instances, NEW e \in Entries, AdoptLeaves(i, e)
                      PROVE  /\ Looks(i, e) /\ Marked(look[i].at, e) /\ look[i].at \in Instances
                             /\ \A k \in Instances : k # i => look'[k] = look[k]
                             /\ look'[i].phase = look[i].phase /\ look'[i].todo = look[i].todo \ {e} /\ look'[i].took = look[i].took /\ look'[i].refused = look[i].refused
                             /\ look'[i].as = look[i].as /\ look'[i].left = look[i].left /\ look'[i].at = look[i].at /\ look'[i].sweep = look[i].sweep /\ look'[i].mv = look[i].mv
                             /\ (look[i].retain => look'[i].retain) /\ look'[i].unread = look[i].unread
                             /\ UNCHANGED <<dir, kv, from, disk, srv, sizes, foreign, claimed, jobs, put, read, stream, proved, weak>>
<1>1. PICK failed \in BOOLEAN : look' = [look EXCEPT ![i] = [look[i] EXCEPT !.todo = @ \ {e}, !.retain = @ \/ failed, !.unread = @ \cup {}]]
  BY DEF AdoptLeaves, Passes
<1>2. look \in [Instances -> Look] /\ Looks(i, e) /\ Marked(look[i].at, e) /\ look[i].at \in Instances
  BY LookedT DEF TypeOK, AdoptLeaves, Looks
<1>3. \A k \in Instances : k # i => look'[k] = look[k]
  BY <1>1, <1>2
<1>4. look'[i] = [look[i] EXCEPT !.todo = @ \ {e}, !.retain = @ \/ failed, !.unread = @ \cup {}] /\ look[i] \in Look
  BY <1>1, <1>2
<1>5. /\ look'[i].phase = look[i].phase /\ look'[i].todo = look[i].todo \ {e} /\ look'[i].took = look[i].took /\ look'[i].refused = look[i].refused
      /\ look'[i].as = look[i].as /\ look'[i].left = look[i].left /\ look'[i].at = look[i].at /\ look'[i].sweep = look[i].sweep /\ look'[i].mv = look[i].mv
  BY <1>4 DEF Look
<1>6. look'[i].retain = (look[i].retain \/ failed) /\ look'[i].unread = look[i].unread
  BY <1>4 DEF Look
<1>7. UNCHANGED <<dir, kv, from, disk, srv, sizes, foreign, claimed, jobs, put, read, stream, proved, weak>>
  BY DEF AdoptLeaves, files, store, io, ghosts
<1> QED
  BY <1>2, <1>3, <1>5, <1>6, <1>7
LEMMA TakePutW == ASSUME TypeOK, PutI, NEW i \in Instances, NEW e \in Entries, TakePut(i)
                  PROVE  /\ Queues(i, e)' => Queues(i, e)
                         /\ Writes(i, e)' => IsPut(jobs[i][1], e) /\ Queues(i, e) /\ ~Queues(i, e)'
                         /\ Puts(i, e)' => Puts(i, e)
                         /\ ~Renamed(i, e)' /\ ~Renamed(i, e)
<1> DEFINE s == jobs[i]  t == jobs'[i]
<1>1. /\ s \in Seq(Job) /\ s # <<>> /\ t \in Seq(Job) /\ Len(t) = Len(s) - 1 /\ (\A n \in 1 .. Len(s) - 1 : t[n] = s[n + 1])
      /\ put'[i].at = "tmp" /\ put'[i].job = s[1] /\ Reads(i) = {} /\ put[i].at = "none"
  BY TakePutE
<1>2. Len(s) \in Nat /\ Len(s) # 0 /\ DOMAIN s = 1 .. Len(s) /\ DOMAIN t = 1 .. Len(s) - 1
  BY <1>1
<1>3. 1 \in DOMAIN s /\ s[1].kind = "put"
  BY <1>1, <1>2 DEF Reads
<1>4. \A n \in DOMAIN t : n + 1 \in DOMAIN s /\ n + 1 # 1 /\ t[n] = s[n + 1]
  BY <1>1, <1>2
<1>5. Queues(i, e)' => Queues(i, e)
  BY <1>4 DEF Queues, IsPut
<1>6. Writes(i, e)' => IsPut(s[1], e) /\ Queues(i, e)
  BY <1>1, <1>3 DEF Writes, Queues, IsPut
<1>7. OnePut(i, e)
  BY DEF PutI
<1>8. IsPut(s[1], e) => ~Queues(i, e)'
  BY <1>3, <1>4, <1>7 DEF Queues, IsPut, OnePut
<1>9. Puts(i, e)' => Puts(i, e)
  BY <1>5, <1>6 DEF Puts, Queues, Writes
<1> QED
  BY <1>1, <1>5, <1>6, <1>8, <1>9 DEF Renamed
LEMMA TakeReadW == ASSUME TypeOK, NEW i \in Instances, TakeRead(i)
                   PROVE  /\ \A n \in DOMAIN jobs'[i] : \E m \in DOMAIN jobs[i] : /\ jobs'[i][n] = jobs[i][m]
                                                                                  /\ m = IF n < FirstRead(i) THEN n ELSE n + 1
                          /\ \A n \in DOMAIN jobs[i] : jobs[i][n].kind = "put" => \E m \in DOMAIN jobs'[i] : jobs'[i][m] = jobs[i][n]
                          /\ FirstRead(i) \in DOMAIN jobs[i] /\ jobs[i][FirstRead(i)].kind # "put" /\ FirstRead(i) \in Nat /\ DOMAIN jobs'[i] \subseteq Nat
<1> DEFINE s == jobs[i]  t == jobs'[i]  f == FirstRead(i)
<1>1. /\ s \in Seq(Job) /\ t \in Seq(Job) /\ Len(t) = Len(s) - 1 /\ (\A n \in 1 .. Len(s) - 1 : t[n] = IF n < f THEN s[n] ELSE s[n + 1])
      /\ f \in 1 .. Len(s) /\ s[f].kind # "put"
  BY TakeReadE
<1>2. Len(s) \in Nat /\ DOMAIN s = 1 .. Len(s) /\ DOMAIN t = 1 .. Len(s) - 1 /\ f \in Nat
  BY <1>1
<1>3. \A n \in DOMAIN t : n \in DOMAIN s /\ n + 1 \in DOMAIN s /\ t[n] = IF n < f THEN s[n] ELSE s[n + 1]
  BY <1>1, <1>2
<1>4. ASSUME NEW n \in DOMAIN s, s[n].kind = "put" PROVE \E m \in DOMAIN t : t[m] = s[n]
  <2>1. n # f /\ n \in Nat
    BY <1>1, <1>2, <1>4
  <2>2. CASE n < f
    <3>1. n \in DOMAIN t /\ t[n] = s[n]
      BY <1>1, <1>2, <1>4, <2>1, <2>2
    <3> QED
      BY <3>1
  <2>3. CASE f < n
    <3>1. n - 1 \in DOMAIN t /\ ~(n - 1 < f) /\ (n - 1) + 1 = n
      BY <1>1, <1>2, <1>4, <2>1, <2>3
    <3>2. t[n - 1] = s[(n - 1) + 1]
      BY <1>3, <3>1
    <3>3. t[n - 1] = s[n]
      BY <3>1, <3>2
    <3> QED
      BY <3>1, <3>3
  <2> QED
    BY <1>2, <2>1, <2>2, <2>3
<1> QED
  BY <1>1, <1>2, <1>3, <1>4
LEMMA StandingE == ASSUME TypeOK, NEW d \in Instances, NEW e \in Entries, Readable(d, e)
                   PROVE  /\ Standing(d, e).s = kv[d][e].s
                          /\ ~Marked(d, e) => Standing(d, e) = kv[d][e]
                          /\ Marked(d, e) => /\ kv[d][e] # NoFile /\ Standing(d, e) = WholeFor(kv[d][e].s) /\ kv[d][e].s # NoBuild
                                             /\ kv[d][e].s \in {from[d][e], dir[d].id} /\ Wrote(d, e) = kv[d][e].s
<1>1. CASE ~Marked(d, e)
  BY <1>1 DEF Standing
<1>2. CASE Marked(d, e)
  <2>1. Wrote(d, e) # NoBuild /\ Wrote(d, e) = Owner(kv[d][e], from[d][e], dir[d].id)
    BY <1>2 DEF Readable, Wrote
  <2>2. Wrote(d, e) = kv[d][e].s /\ kv[d][e].s # NoBuild /\ kv[d][e].s \in {from[d][e], dir[d].id}
    BY <2>1 DEF Owner
  <2>3. kv[d][e] # NoFile
    BY <2>2 DEF NoFile
  <2> QED
    BY <1>2, <2>2, <2>3 DEF Standing, WholeFor
<1> QED
  BY <1>1, <1>2
LEMMA ClaimsE == ASSUME NEW i, NEW e, UNCHANGED <<jobs, read>> PROVE Claims(i, e)' <=> Claims(i, e)
  BY DEF Claims
LEMMA TakeReadC == ASSUME TypeOK, NEW i \in Instances, TakeRead(i), NEW k \in Instances, NEW e \in Entries
                   PROVE (Claims(k, e)' => Claims(k, e)) /\ (k # i => read'[k] = read[k])
<1>1. CASE k # i
  <2>1. read'[k] = read[k] /\ jobs'[k] = jobs[k]
    BY <1>1, TakeReadE
  <2> QED
    BY <2>1 DEF Claims
<1>2. CASE k = i
  <2> DEFINE f == FirstRead(i)  j == jobs[i][f]
  <2>1. f \in DOMAIN jobs[i] /\ (\A n \in DOMAIN jobs'[i] : \E m \in DOMAIN jobs[i] : jobs'[i][n] = jobs[i][m])
    BY TakeReadW
  <2>2. read'[i] = read[i] \/ (read'[i].at = "check" /\ read'[i].job = j)
    BY TakeReadE
  <2> HIDE DEF f
  <2> QED
    BY <1>2, <2>1, <2>2 DEF Claims
<1> QED
  BY <1>1, <1>2, TakeReadE
LEMMA OnceFrame == ASSUME OnceI, NEW e \in Entries, \A k \in Instances : Puts(k, e)' => Puts(k, e) /\ (Renamed(k, e) => Renamed(k, e)'),
                          \A d \in Instances : Has(d, e)' => Has(d, e)
                   PROVE Once(e)'
  BY DEF OnceI, Once
LEMMA WorkFrame == ASSUME NEW e, UNCHANGED <<jobs, put>>
                   PROVE \A k \in Instances : Puts(k, e)' => Puts(k, e) /\ (Renamed(k, e) => Renamed(k, e)')
  BY DEF Puts, Renamed
LEMMA FileFrame == ASSUME NEW e, UNCHANGED kv PROVE \A d \in Instances : Has(d, e)' => Has(d, e)
  BY DEF Has
LEMMA LookingE == ASSUME TypeOK, LocksI, NEW i \in Instances, look[i].at # Nobody, look[i].phase # "remove"
                  PROVE look[i].at \in Instances /\ look[i].at # i /\ ~Opened(look[i].at) /\ ~Serving(look[i].at) /\ Opened(i) /\ dir[look[i].at].lock = i
<1>1. look[i].at \in Instances
  BY LookedT
<1>2. look[i].at # i /\ dir[look[i].at].lock = i /\ Opened(i)
  BY DEF LocksI, Locks
<1>3. ~Opened(look[i].at)
  BY <1>1, <1>2 DEF LocksI, Locks
<1> QED
  BY <1>1, <1>2, <1>3 DEF Opened, Serving
LEMMA ServingE == ASSUME LocksI, NEW i \in Instances, Serving(i)
                  PROVE look[i].todo = {} /\ look[i].phase \notin {"move", "beside"} /\ look[i].sweep # "start" /\ (\A e : ~Moves(i, e)) /\ Opened(i) /\ ~Fresh(i)
<1>1. look[i].sweep # "start" /\ Opened(i) /\ ~Fresh(i)
  BY DEF LocksI, Locks, Serving, Opened, Fresh
<1>2. look[i].todo = {}
  BY <1>1 DEF LocksI, Locks, Adopts
<1>3. look[i].phase \notin {"move", "beside"}
  BY <1>2 DEF LocksI, Locks
<1> QED
  BY <1>1, <1>2, <1>3 DEF Moves
LEMMA KnownFrame ==
    ASSUME NEW k, NEW e, Known(k, e), Opened(k)' => Opened(k), srv'[k].cfg = srv[k].cfg, Fresh(k)' <=> Fresh(k), dir'[k].there = dir[k].there, dir'[k].id = dir[k].id,
           foreign'[k][e] = foreign[k][e], e \in sizes'[k] <=> e \in sizes[k], Renamed(k, e)' <=> Renamed(k, e), Has(k, e)' <=> Has(k, e), from'[k][e] = from[k][e],
           Moves(k, e)' <=> Moves(k, e), Moves(k, e) => look'[k].as = look[k].as
    PROVE Known(k, e)'
  BY DEF Known, Mine
LEMMA KnownDrop ==
    ASSUME DiskStoreAssumption, TypeOK, LocksI, KnownI, NEW i \in Instances, NEW x \in Entries, Serving(i), Removed(i, x), Forgotten(i, x), ~Renamed(i, x),
           \A k \in Instances, g \in Entries : Renamed(k, g)' <=> Renamed(k, g), UNCHANGED <<dir, srv, look>>
    PROVE KnownI'
<1> SUFFICES ASSUME NEW k \in Instances, NEW g \in Entries PROVE Known(k, g)'
  BY DEF KnownI
<1>1. Known(k, g) /\ (Opened(k)' <=> Opened(k)) /\ (Fresh(k)' <=> Fresh(k)) /\ (Moves(k, g)' <=> Moves(k, g)) /\ Mine(k)' = Mine(k)
  BY DEF KnownI, Opened, Fresh, Moves, Mine
<1>2. /\ kv'[k][g] = IF k = i /\ g = x THEN NoFile ELSE kv[k][g]
      /\ from'[k][g] = IF k = i /\ g = x THEN NoBuild ELSE from[k][g]
      /\ foreign'[k][g] = IF k = i /\ g = x THEN NoBuild ELSE foreign[k][g]
      /\ g \in sizes'[k] <=> g \in sizes[k] /\ ~(k = i /\ g = x)
  BY DropsE
<1>3. CASE k = i /\ g = x
  <2>1. ~Has(k, g)' /\ from'[k][g] = NoBuild /\ foreign'[k][g] = NoBuild /\ g \notin sizes'[k]
    BY <1>2, <1>3 DEF Has
  <2>2. ~Moves(k, g) /\ Opened(k) /\ ~Renamed(k, g)'
    BY <1>3, ServingE
  <2>4. Mine(k) # NoBuild
    BY MineT DEF DiskStoreAssumption
  <2> QED
    BY <1>1, <2>1, <2>2, <2>4, <1>3 DEF Known
<1>4. CASE ~(k = i /\ g = x)
  <2>1. Has(k, g)' <=> Has(k, g)
    BY <1>2, <1>4 DEF Has
  <2> QED
    BY <1>1, <1>2, <1>4, <2>1, KnownFrame DEF Mine
<1> QED
  BY <1>3, <1>4
LEMMA TouchedE == ASSUME PutI, NEW i \in Instances, NEW e \in Entries, Touches(i, e) PROVE ~Puts(i, e) /\ ~Renamed(i, e) /\ ~Queues(i, e)
  BY DEF PutI, OnePut, Puts, Renamed, Queues
LEMMA AdoptTakesF == ASSUME TypeOK, NEW i \in Instances, NEW e \in Entries, AdoptTakes(i, e), NEW c \in Instances, NEW g \in Entries
   PROVE LET d == look[i].at  as == TakenAs(i, d, e)
         IN /\ from'[c][g] = IF c = i /\ g = e /\ as # Mine(i) THEN as ELSE from[c][g]
            /\ kv'[c][g] = IF c = d /\ g = e THEN WholeFor(as) ELSE kv[c][g]
            /\ disk'[c][g] = IF c = d /\ g = e /\ kv[d][e] # WholeFor(as) THEN WholeFor(as) ELSE disk[c][g]
<1>1. from'[c][g] = IF c = i /\ g = e /\ TakenAs(i, look[i].at, e) # Mine(i) THEN TakenAs(i, look[i].at, e) ELSE from[c][g]
  BY AdoptTakesE
<1>2. kv'[c][g] = IF c = look[i].at /\ g = e THEN WholeFor(TakenAs(i, look[i].at, e)) ELSE kv[c][g]
  BY AdoptTakesE
<1>3. disk'[c][g] = IF c = look[i].at /\ g = e /\ kv[look[i].at][e] # WholeFor(TakenAs(i, look[i].at, e)) THEN WholeFor(TakenAs(i, look[i].at, e)) ELSE disk[c][g]
  BY AdoptTakesE
<1> QED
  BY <1>1, <1>2, <1>3
LEMMA KnownFresh == ASSUME NEW k, NEW g, Fresh(k)', g \notin sizes'[k], ~Renamed(k, g)', ~Has(k, g)', from'[k][g] = NoBuild, ~Moves(k, g)', foreign'[k][g] = NoBuild, Mine(k)' # NoBuild
                    PROVE  Known(k, g)'
  BY DEF Known
LEMMA ClaimingFrame ==
    ASSUME LocksI, ClaimingI, NEW k \in Instances, read'[k] = read[k],
           Serving(k) => /\ srv'[k].cfg = srv[k].cfg /\ weak \subseteq weak'
                         /\ LET e == read[k].job.e
                            IN kv'[k][e] # NoFile => kv'[k][e] = kv[k][e] /\ disk'[k][e] = disk[k][e] /\ foreign'[k][e] = foreign[k][e]
    PROVE  Claiming(k)'
<1>1. CASE ~Serving(k)
  <2>1. read[k].at = "none"
    BY <1>1 DEF LocksI, Locks
  <2> QED
    BY <2>1 DEF Claiming
<1>2. CASE Serving(k)
  <2>1. Claiming(k) /\ Mine(k)' = Mine(k)
    BY <1>2 DEF ClaimingI, Mine
  <2> QED
    BY <1>2, <2>1 DEF Claiming, Has
<1> QED
  BY <1>1, <1>2
LEMMA ClaimingEnds == ASSUME NEW k, read'[k].at \in {"none", "check"} PROVE Claiming(k)'
  BY DEF Claiming
LEMMA ClaimingSame ==
    ASSUME LocksI, ClaimingI, UNCHANGED <<kv, disk, foreign, read, weak>>, \A k \in Instances : Serving(k) => srv'[k].cfg = srv[k].cfg
    PROVE  ClaimingI'
  BY ClaimingFrame DEF ClaimingI
LEMMA DropsC == ASSUME LocksI, ClaimingI, TypeOK, NEW i \in Instances, NEW x \in Entries, Removed(i, x), foreign' = foreign \/ Forgotten(i, x), UNCHANGED <<srv, weak>>,
                    \A k \in Instances : read'[k] = read[k] \/ read'[k] = NoRead
             PROVE ClaimingI'
<1> SUFFICES ASSUME NEW k \in Instances PROVE Claiming(k)'
  BY DEF ClaimingI
<1>1. \A g \in Entries : kv'[k][g] # NoFile => kv'[k][g] = kv[k][g] /\ disk'[k][g] = disk[k][g] /\ foreign'[k][g] = foreign[k][g]
  <2> TAKE g \in Entries
  <2>1. /\ kv'[k][g] = IF k = i /\ g = x THEN NoFile ELSE kv[k][g]
        /\ disk'[k][g] = IF k = i /\ g = x THEN NoFile ELSE disk[k][g]
    BY RemovedE
  <2>2. foreign'[k][g] = IF foreign' # foreign /\ k = i /\ g = x THEN NoBuild ELSE foreign[k][g]
    BY DropsE
  <2> QED
    BY <2>1, <2>2
<1>2. CASE read'[k] = read[k]
  BY <1>1, <1>2, JobT, ClaimingFrame
<1>3. CASE read'[k] = NoRead
  BY <1>3, ClaimingEnds DEF NoRead
<1> QED
  BY <1>2, <1>3
LEMMA RewriteFieldF == ASSUME TypeOK, NEW i \in Instances, RewriteField(i), NEW c \in Instances, NEW g \in Entries, c # i \/ g # read[i].job.e
                       PROVE kv'[c][g] = kv[c][g]
<1>1. kv' = [kv EXCEPT ![i][read[i].job.e].f = Mine(i)]
  BY DEF RewriteField
<1>2. kv \in [Instances -> [Entries -> Header]]
  BY DEF TypeOK
<1> QED
  BY <1>1, <1>2
LEMMA MovingFrame ==
    ASSUME TypeOK, DiskStoreAssumption, LocksI, MovingI, NEW k \in Instances, look'[k].phase = look[k].phase, look'[k].at = look[k].at, look'[k].mv = look[k].mv, look'[k].as = look[k].as,
           weak \subseteq weak',
           ASSUME look[k].at \in Instances, Opened(k), ~Opened(look[k].at), ~Serving(k), ~Serving(look[k].at), dir[look[k].at].lock = k
           PROVE  LET d == look[k].at  e == look[k].mv
                  IN /\ kv'[k][e] # NoFile => kv[k][e] # NoFile
                     /\ kv'[d][e] # NoFile => kv'[d][e] = kv[d][e] /\ disk'[d][e] = disk[d][e]
    PROVE  Moving(k)'
<1>1. Moving(k)
  BY DEF MovingI
<1>2. CASE look[k].phase \in {"move", "beside"}
  <2>1. look[k].at # Nobody
    BY <1>2 DEF LocksI, Locks
  <2>2. look[k].at \in Instances /\ Opened(k) /\ ~Opened(look[k].at) /\ ~Serving(k) /\ ~Serving(look[k].at) /\ dir[look[k].at].lock = k
    BY <1>2, <2>1, LookingE, ServingE
  <2> QED
    BY <1>1, <2>2 DEF Moving, Has
<1>3. CASE look[k].phase \notin {"move", "beside"}
  BY <1>3 DEF Moving
<1> QED
  BY <1>2, <1>3
LEMMA MovingRests == ASSUME NEW k, look'[k].phase \notin {"move", "beside"} PROVE Moving(k)'
  BY DEF Moving
LEMMA AdoptO == ASSUME TypeOK, DiskStoreAssumption, LocksI, NEW i \in Instances, AdoptMove(i) \/ (\E e \in Entries : AdoptPasses(i, e) \/ AdoptTakes(i, e) \/ AdoptLeaves(i, e)) \/ AdoptMoveFails(i) \/ AdoptBeside(i)
                PROVE  /\ \A k \in Instances : k # i => look'[k] = look[k]
                       /\ UNCHANGED <<dir, srv, claimed, jobs, put, read, stream, proved, weak>>
                       /\ look[i].at \in Instances /\ look[i].at # i /\ ~Opened(look[i].at) /\ ~Serving(look[i].at) /\ Opened(i) /\ ~Serving(i) /\ dir[look[i].at].lock = i
                       /\ look[i].phase # "remove"
<1>1. \E l : look' = [look EXCEPT ![i] = l]
  BY ZenonT(60) DEF AdoptMove, AdoptPasses, AdoptTakes, AdoptLeaves, Passes, AdoptMoveFails, AdoptBeside
<1>2. \A k \in Instances : k # i => look'[k] = look[k]
  BY <1>1 DEF TypeOK
<1>3. UNCHANGED <<dir, srv, claimed, jobs, put, read, stream, proved, weak>>
  BY ZenonT(60) DEF AdoptMove, AdoptPasses, AdoptTakes, AdoptLeaves, AdoptMoveFails, AdoptBeside, store, io, ghosts, files
<1>4. look[i].at # Nobody /\ look[i].phase # "remove" /\ (look[i].phase \in {"move", "beside"} \/ look[i].todo # {})
  BY ZenonT(60) DEF AdoptMove, AdoptPasses, AdoptTakes, AdoptLeaves, AdoptMoveFails, AdoptBeside, Looks
<1> QED
  BY <1>2, <1>3, <1>4, LookingE, ServingE
LEMMA HeadedFrame ==
    ASSUME HeadedI, NEW d \in Instances, NEW e \in Entries, weak \subseteq weak',
           kv'[d][e] # NoFile => kv'[d][e] = kv[d][e] /\ disk'[d][e] = disk[d][e] /\ from'[d][e] = from[d][e] /\ dir'[d].id = dir[d].id,
           Syncing(d, e) => Syncing(d, e)' \/ e \in weak' \/ disk'[d][e] = kv'[d][e]
    PROVE  Headed(d, e)'
<1>1. Headed(d, e)
  BY DEF HeadedI
<1> QED
  BY <1>1 DEF Headed, Has
LEMMA HeadedGone == ASSUME NEW d, NEW e, kv'[d][e] = NoFile PROVE Headed(d, e)'
  BY DEF Headed, Has
LEMMA HeadedSettled ==
    ASSUME HeadedI, NEW d \in Instances, NEW e \in Entries, kv[d][e] # NoFile, ~Syncing(d, e), from[d][e] # NoBuild, kv'[d][e] = WholeFor(kv[d][e].s),
           disk'[d][e] = IF kv[d][e] # WholeFor(kv[d][e].s) THEN WholeFor(kv[d][e].s) ELSE disk[d][e], from'[d][e] = from[d][e], dir'[d].id = dir[d].id, weak \subseteq weak'
    PROVE  Headed(d, e)'
<1>1. Headed(d, e)
  BY DEF HeadedI
<1>2. \A b : WholeFor(b).f = b /\ WholeFor(b).s = b
  BY DEF WholeFor
<1>3. CASE kv[d][e] # WholeFor(kv[d][e].s)
  BY <1>1, <1>2, <1>3 DEF Headed, Has
<1>4. CASE kv[d][e] = WholeFor(kv[d][e].s)
  BY <1>1, <1>2, <1>4 DEF Headed, Has
<1> QED
  BY <1>3, <1>4
LEMMA SyncingE == ASSUME LocksI, NEW d \in Instances, ~Serving(d) PROVE \A e : ~Syncing(d, e)
  BY DEF LocksI, Locks, Syncing
LEMMA HeadedDrop ==
    ASSUME TypeOK, HeadedI, NEW i \in Instances, NEW x \in Entries, Removed(i, x), UNCHANGED <<dir, weak>>, \A k \in Instances, g \in Entries : Syncing(k, g) => Syncing(k, g)'
    PROVE  HeadedI'
<1> SUFFICES ASSUME NEW k \in Instances, NEW g \in Entries PROVE Headed(k, g)'
  BY DEF HeadedI
<1>1. /\ kv'[k][g] = IF k = i /\ g = x THEN NoFile ELSE kv[k][g]
      /\ disk'[k][g] = IF k = i /\ g = x THEN NoFile ELSE disk[k][g]
      /\ from'[k][g] = IF k = i /\ g = x THEN NoBuild ELSE from[k][g]
  BY RemovedE
<1> QED
  BY <1>1, HeadedFrame
LEMMA KnownIdE ==
  ASSUME EmptyI, KnownI, NEW i \in Instances, NEW e \in Entries, Opened(i), ~Fresh(i), dir[i].there \/ Has(i, e)
  PROVE  dir[i].id = Mine(i) /\ dir[i].there
  BY DEF EmptyI, Empty, KnownI, Known
LEMMA ClaimFileE == ASSUME LocksI, EmptyI, KnownI, ClaimingI, NEW i \in Instances, read[i].job.e \in Entries, read[i].at \in {"field", "sum", "sync", "beside", "settle"}, kv[i][read[i].job.e] # NoFile
                  PROVE  /\ from[i][read[i].job.e] = read[i].theirs /\ foreign[i][read[i].job.e] = read[i].theirs /\ dir[i].id = Mine(i) /\ dir[i].there
                         /\ read[i].theirs # NoBuild /\ read[i].theirs # Mine(i) /\ Serving(i)
<1>1. foreign[i][read[i].job.e] = read[i].theirs /\ read[i].theirs \notin {NoBuild, Mine(i)}
  BY DEF ClaimingI, Claiming, Has
<1>2. Serving(i)
  BY DEF LocksI, Locks
<1>3. Opened(i) /\ ~Fresh(i)
  BY <1>2, ServingE
<1> QED
  BY <1>1, <1>2, <1>3, KnownIdE DEF KnownI, Known, Has
LEMMA LookedFrame ==
    ASSUME DiskStoreAssumption, TypeOK, LocksI, LookedI, NEW k \in Instances,
           look'[k].at = look[k].at, look'[k].sweep = look[k].sweep, look'[k].phase # "remove" => look[k].phase # "remove",
           look[k].retain => look'[k].retain, look[k].refused => look'[k].refused, look[k].unread \subseteq look'[k].unread,
           ASSUME look[k].at \in Instances, Opened(k), ~Opened(look[k].at), ~Serving(look[k].at), dir[look[k].at].lock = k
           PROVE  LET d == look[k].at
                  IN /\ srv'[k].cfg = srv[k].cfg
                     /\ \A g \in Entries : kv'[d][g] # NoFile => \/ g \in look'[k].todo
                                                                 \/ /\ kv'[d][g] = kv[d][g] /\ disk'[d][g] = disk[d][g] /\ from'[d][g] = from[d][g] /\ dir'[d].id = dir[d].id
                                                                    /\ g \in look[k].todo => g \in look'[k].todo
    PROVE  Looked(k)'
<1>1. Looked(k)
  BY DEF LookedI
<1>2. CASE Adopts(k)' /\ look[k].at # Nobody /\ look'[k].phase # "remove"
  <2>1. look[k].at \in Instances /\ Opened(k) /\ ~Opened(look[k].at) /\ ~Serving(look[k].at) /\ dir[look[k].at].lock = k
    BY <1>2, LookingE
  <2>2. srv'[k].cfg = srv[k].cfg /\ (Adopts(k)' <=> Adopts(k))
    BY <2>1 DEF Adopts
  <2> DEFINE d == look[k].at
  <2>3. ASSUME NEW g \in Entries, g \in Keeps(d)', g \notin look'[k].todo
        PROVE  g \in Keeps(d) /\ g \notin look[k].todo /\ dir'[d].id = dir[d].id
    <3>1. kv'[d][g] # NoFile /\ kv'[d][g] = WholeFor(dir'[d].id) /\ disk'[d][g] = kv'[d][g] /\ from'[d][g] = NoBuild
      BY <2>3 DEF Keeps, Files
    <3>2. kv'[d][g] = kv[d][g] /\ disk'[d][g] = disk[d][g] /\ from'[d][g] = from[d][g] /\ dir'[d].id = dir[d].id /\ g \notin look[k].todo
      BY <2>1, <2>3, <3>1
    <3> QED
      BY ZenonT(60), <3>1, <3>2 DEF Keeps, Files
  <2>4. Keeps(d)' \subseteq Entries /\ look'[k].at = d
    BY DEF Keeps, Files
  <2> HIDE DEF d
  <2> QED
    BY <1>1, <1>2, <2>2, <2>3, <2>4 DEF Looked, Mine, d
<1> QED
  BY <1>2 DEF Looked
LEMMA LookedRests == ASSUME NEW k, look'[k].at = Nobody \/ look'[k].phase = "remove" \/ look'[k].retain PROVE Looked(k)'
  BY DEF Looked
LEMMA LeftE == ASSUME NEW h, NEW k, NEW pick \in {"new", "old", "field", "sum"}
               PROVE  \/ Left(h, k, pick) = h \/ Left(h, k, pick) = k
                      \/ /\ h # NoFile /\ k # NoFile
                         /\ Left(h, k, pick) \in {[f |-> h.f, s |-> k.s], [f |-> k.f, s |-> h.s]}
  BY DEF Left
LEMMA PowerLossE ==
    ASSUME TypeOK, PowerLoss
    PROVE  /\ \A d \in Instances : /\ dir'[d].there = dir[d].there /\ dir'[d].kept = dir[d].kept /\ dir'[d].old = dir[d].old /\ dir'[d].id = dir[d].id
                                   /\ srv'[d].cfg = srv[d].cfg /\ srv'[d].pc = IF Live(d) THEN "ended" ELSE srv[d].pc
                                   /\ ~Opened(d)' /\ ~Serving(d)' /\ (Fresh(d)' => Fresh(d))
                                   /\ sizes'[d] = {} /\ foreign'[d] = Unmarked /\ jobs'[d] = <<>> /\ put'[d] = NoWrite /\ read'[d] = NoRead /\ stream'[d] = NoStream /\ look'[d] = NoLook
           /\ \A d \in Instances, e \in Entries :
                /\ disk'[d][e] = kv'[d][e]
                /\ \/ kv'[d][e] = kv[d][e] \/ kv'[d][e] = disk[d][e]
                   \/ /\ kv[d][e] # NoFile /\ disk[d][e] # NoFile
                      /\ kv'[d][e] \in {[f |-> kv[d][e].f, s |-> disk[d][e].s], [f |-> disk[d][e].f, s |-> kv[d][e].s]}
           /\ UNCHANGED <<from, proved, weak>>
<1>1. /\ Unlocked(Instances) /\ Memory(Instances) /\ disk' = kv' /\ UNCHANGED <<from, proved, weak>>
      /\ srv' = [i \in Instances |-> IF Live(i) THEN [srv[i] EXCEPT !.pc = "ended"] ELSE srv[i]]
  BY DEF PowerLoss, ghosts
<1>2. PICK pick \in [Loose -> {"new", "old", "field", "sum"}] :
        kv' = [d \in Instances |-> [e \in Entries |-> IF <<d, e>> \in Loose THEN Left(kv[d][e], disk[d][e], pick[<<d, e>>]) ELSE kv[d][e]]]
  BY DEF PowerLoss
<1>3. ASSUME NEW d \in Instances, NEW e \in Entries
      PROVE  \/ kv'[d][e] = kv[d][e] \/ kv'[d][e] = disk[d][e]
             \/ /\ kv[d][e] # NoFile /\ disk[d][e] # NoFile
                /\ kv'[d][e] \in {[f |-> kv[d][e].f, s |-> disk[d][e].s], [f |-> disk[d][e].f, s |-> kv[d][e].s]}
  <2>1. kv'[d][e] = IF <<d, e>> \in Loose THEN Left(kv[d][e], disk[d][e], pick[<<d, e>>]) ELSE kv[d][e]
    BY <1>2
  <2>2. CASE <<d, e>> \notin Loose
    BY <2>1, <2>2
  <2>3. CASE <<d, e>> \in Loose
    <3>1. pick[<<d, e>>] \in {"new", "old", "field", "sum"}
      BY <1>2, <2>3
    <3>2. kv'[d][e] = Left(kv[d][e], disk[d][e], pick[<<d, e>>])
      BY <2>1, <2>3
    <3> QED
      BY <3>1, <3>2, LeftE
  <2> QED
    BY <2>2, <2>3
<1>4. ASSUME NEW d \in Instances
      PROVE  /\ srv'[d].cfg = srv[d].cfg /\ srv'[d].pc = IF Live(d) THEN "ended" ELSE srv[d].pc
             /\ ~Opened(d)' /\ ~Serving(d)' /\ look'[d] = NoLook
  <2>1. srv[d] \in Server /\ srv'[d] = IF Live(d) THEN [srv[d] EXCEPT !.pc = "ended"] ELSE srv[d]
    BY <1>1, TypeAt
  <2>2. srv'[d].cfg = srv[d].cfg /\ srv'[d].pc = IF Live(d) THEN "ended" ELSE srv[d].pc
    BY <2>1 DEF Server
  <2>3. srv'[d].pc \in {"off", "ended"}
    BY <2>2 DEF Live
  <2>4. look'[d] = NoLook
    BY <1>1 DEF Memory
  <2> QED
    BY <2>2, <2>3, <2>4 DEF Opened, Serving
<1>5. ASSUME NEW d \in Instances PROVE Fresh(d)' => Fresh(d)
  BY <1>4 DEF Fresh, Opened, Live
<1>6. ASSUME NEW d \in Instances PROVE sizes'[d] = {} /\ foreign'[d] = Unmarked /\ jobs'[d] = <<>> /\ put'[d] = NoWrite /\ read'[d] = NoRead /\ stream'[d] = NoStream
  BY <1>1 DEF Memory
<1>7. ASSUME NEW d \in Instances PROVE dir'[d].there = dir[d].there /\ dir'[d].kept = dir[d].kept /\ dir'[d].old = dir[d].old /\ dir'[d].id = dir[d].id
  BY <1>1, UnlockedE
<1> QED
  BY <1>1, <1>3, <1>4, <1>5, <1>6, <1>7
LEMMA ExpireE == ASSUME TypeOK, NEW x \in Instances, Expire(x)
                 PROVE  /\ \A d \in Instances : dir'[d].there = dir[d].there /\ dir'[d].kept = dir[d].kept /\ dir'[d].id = dir[d].id /\ dir'[d].lock = dir[d].lock
                        /\ UNCHANGED <<kv, from, disk, srv, sizes, foreign, claimed, jobs, put, read, stream, look, proved, weak>>
<1>1. dir' = [dir EXCEPT ![x].old = TRUE] /\ dir \in [Instances -> Directory]
  BY DEF TypeOK, Expire
<1>2. UNCHANGED <<kv, from, disk, srv, sizes, foreign, claimed, jobs, put, read, stream, look, proved, weak>>
  BY DEF Expire, files, store, io, ghosts
<1> QED
  BY <1>1, <1>2 DEF Directory
LEMMA KeptE == ASSUME TypeOK, LocksI, NEW d \in Instances, NEW g \in Entries, dir[d].kept, ~Condemned(d), g \in Keeps(d)
               PROVE  /\ srv[d].pc = "ended" /\ ~Opened(d) /\ ~Serving(d) /\ kv[d][g] # NoFile /\ disk[d][g] = kv[d][g]
                      /\ \A i \in Instances : look[i].phase = "remove" => look[i].at # d
  BY DEF LocksI, Locks, Condemned, Keeps, Files, Opened, Serving
LEMMA NotCondemned == ASSUME NEW d, ~Condemned(d), \A i \in Instances : look'[i].phase = "remove" => look'[i].at # d \/ (look[i].phase = "remove" /\ look'[i].at = look[i].at)
                      PROVE ~Condemned(d)'
  BY DEF Condemned

-----------------------------------------------------------------------------
\* Each part of the invariant is kept by every step of a server, one case per action; those that leave what it speaks of together.
\* Types.
LEMMA TypesKept ==
  ASSUME DiskStoreAssumption, TypeOK, NEW i \in Instances, Acts(i)
  PROVE  TypeOK'
<1>1. CASE MakeDirectory(i)
  <2>1. dir' \in [Instances -> Directory]
    <3>1. dir[i] \in Directory
      BY TypeAt
    <3>2. [dir[i] EXCEPT !.there = TRUE] \in Directory
      BY <3>1 DEF Directory
    <3>3. dir' = [dir EXCEPT ![i] = [dir[i] EXCEPT !.there = TRUE]]
      BY <1>1 DEF MakeDirectory
    <3> QED
      BY <3>2, <3>3, DirSet
  <2>2. PICK c \in Configs[i] : srv' = [srv EXCEPT ![i] = [pc |-> "made", cfg |-> c]]
    BY <1>1 DEF MakeDirectory
  <2>3. c \in Config
    BY <2>2 DEF DiskStoreAssumption, Config
  <2>4. srv' \in [Instances -> Server]
    BY <2>2, <2>3, SrvSet DEF Server
  <2>5. UNCHANGED <<kv, from, disk, sizes, foreign, claimed, jobs, put, read, stream, look, proved, weak>>
    BY <1>1 DEF MakeDirectory, files, store, io, ghosts
  <2> QED
    BY <2>1, <2>2, <2>3, <2>4, <2>5 DEF TypeOK
<1>2. CASE TakeLock(i)
  <2>1. dir' \in [Instances -> Directory]
    <3>1. dir[i] \in Directory
      BY TypeAt
    <3>2. [dir[i] EXCEPT !.lock = i] \in Directory
      BY <3>1 DEF Directory
    <3>3. dir' = [dir EXCEPT ![i] = [dir[i] EXCEPT !.lock = i]]
      BY <1>2 DEF TakeLock
    <3> QED
      BY <3>2, <3>3, DirSet
  <2>2. srv' \in [Instances -> Server]
    BY <1>2, GoesT DEF TakeLock
  <2>3. UNCHANGED <<kv, from, disk, sizes, foreign, claimed, jobs, put, read, stream, look, proved, weak>>
    BY <1>2 DEF TakeLock, files, store, io, ghosts
  <2> QED
    BY <2>1, <2>2, <2>3 DEF TypeOK
<1>3. CASE LockRefused(i)
  <2>1. srv' \in [Instances -> Server]
    BY <1>3, GoesT DEF LockRefused
  <2>2. UNCHANGED <<dir, kv, from, disk, sizes, foreign, claimed, jobs, put, read, stream, look, proved, weak>>
    BY <1>3 DEF LockRefused, files, store, io, ghosts
  <2> QED
    BY <2>1, <2>2 DEF TypeOK
<1>4. CASE KeepIdentity(i)
  <2>1. dir' \in [Instances -> Directory]
    <3>1. dir[i] \in Directory
      BY TypeAt
    <3>2. [dir[i] EXCEPT !.id = IF dir[i].there THEN Mine(i) ELSE @] \in Directory
      BY <3>1, MineT DEF Directory
    <3>3. dir' = [dir EXCEPT ![i] = [dir[i] EXCEPT !.id = IF dir[i].there THEN Mine(i) ELSE @]]
      BY <1>4 DEF KeepIdentity
    <3> QED
      BY <3>2, <3>3, DirSet
  <2>2. look' \in [Instances -> Look]
    BY <1>4, BeginsT DEF KeepIdentity
  <2>3. UNCHANGED <<kv, from, disk, srv, sizes, foreign, claimed, jobs, put, read, stream, proved, weak>>
    BY <1>4 DEF KeepIdentity, files, store, io, ghosts
  <2> QED
    BY <2>1, <2>2, <2>3 DEF TypeOK
<1>5. ASSUME NEW d \in Instances, SweepNext(i, d) PROVE TypeOK'
  <2>1. dir' \in [Instances -> Directory]
    <3>1. dir[d] \in Directory
      BY TypeAt
    <3>2. [dir[d] EXCEPT !.lock = i] \in Directory
      BY <3>1 DEF Directory
    <3>3. dir' = [dir EXCEPT ![d] = [dir[d] EXCEPT !.lock = i]]
      BY <1>5 DEF SweepNext
    <3> QED
      BY <3>2, <3>3, DirSet
  <2>2. look' \in [Instances -> Look]
    <3>1. look[i] \in Look
      BY TypeAt
    <3>2. [look[i] EXCEPT !.left = @ \ {d}, !.at = d, !.todo = IF Adopts(i) THEN Files(d) ELSE {}, !.refused = Adopts(i) /\ dir[d].id = NoBuild /\ Files(d) # {}] \in Look
      BY ZenonT(60), <3>1 DEF Look, Files
    <3>3. look' = [look EXCEPT ![i] = [look[i] EXCEPT !.left = @ \ {d}, !.at = d, !.todo = IF Adopts(i) THEN Files(d) ELSE {}, !.refused = Adopts(i) /\ dir[d].id = NoBuild /\ Files(d) # {}]]
      BY <1>5 DEF SweepNext
    <3> QED
      BY <3>2, <3>3, LookSet
  <2>3. UNCHANGED <<kv, from, disk, srv, sizes, foreign, claimed, jobs, put, read, stream, proved, weak>>
    BY <1>5 DEF SweepNext, files, store, io, ghosts
  <2> QED
    BY <2>1, <2>2, <2>3 DEF TypeOK
<1>6. ASSUME NEW d \in Instances, SweepPasses(i, d) PROVE TypeOK'
  <2>1. look' \in [Instances -> Look]
    <3>1. look[i] \in Look
      BY TypeAt
    <3>2. [look[i] EXCEPT !.left = @ \ {d}] \in Look
      BY <3>1 DEF Look
    <3>3. look' = [look EXCEPT ![i] = [look[i] EXCEPT !.left = @ \ {d}]]
      BY <1>6 DEF SweepPasses
    <3> QED
      BY <3>2, <3>3, LookSet
  <2>2. UNCHANGED <<dir, kv, from, disk, srv, sizes, foreign, claimed, jobs, put, read, stream, proved, weak>>
    BY <1>6 DEF SweepPasses, files, store, io, ghosts
  <2> QED
    BY <2>1, <2>2 DEF TypeOK
<1>7. CASE SweepEnd(i)
  <2>1. look' \in [Instances -> Look]
    <3>1. look[i] \in Look
      BY TypeAt
    <3>2. [look[i] EXCEPT !.sweep = "no"] \in Look
      BY <3>1 DEF Look
    <3>3. look' = [look EXCEPT ![i] = [look[i] EXCEPT !.sweep = "no"]]
      BY <1>7 DEF SweepEnd
    <3> QED
      BY <3>2, <3>3, LookSet
  <2>2. srv' \in [Instances -> Server]
    <3>1. srv[i] \in Server /\ Goes(i, IF srv[i].pc = "locked" THEN "run" ELSE srv[i].pc)
      BY <1>7, TypeAt DEF SweepEnd
    <3>2. (IF srv[i].pc = "locked" THEN "run" ELSE srv[i].pc) \in {"off", "made", "locked", "run", "stopping", "removing", "ended"}
      BY <3>1 DEF Server
    <3> QED
      BY <3>1, <3>2, GoesT
  <2>3. UNCHANGED <<dir, kv, from, disk, sizes, foreign, claimed, jobs, put, read, stream, proved, weak>>
    BY <1>7 DEF SweepEnd, files, store, io, ghosts
  <2> QED
    BY <2>1, <2>2, <2>3 DEF TypeOK
<1>8. ASSUME NEW e \in Entries, AdoptLeaves(i, e) PROVE TypeOK'
  <2>1. look' \in [Instances -> Look]
    BY <1>8, PassesT DEF AdoptLeaves
  <2>2. UNCHANGED <<dir, kv, from, disk, srv, sizes, foreign, claimed, jobs, put, read, stream, proved, weak>>
    BY <1>8 DEF AdoptLeaves, files, store, io, ghosts
  <2> QED
    BY <2>1, <2>2 DEF TypeOK
<1>9. ASSUME NEW e \in Entries, AdoptPasses(i, e) PROVE TypeOK'
  <2>1. look[i].at \in Instances
    BY <1>9, LookedT DEF AdoptPasses, Looks
  <2>2. kv' \in [Instances -> [Entries -> Header]] /\ disk' \in [Instances -> [Entries -> Header]]
    BY <1>9, <2>1, SettledT, TakenT DEF AdoptPasses
  <2>a. \E failed \in BOOLEAN, unread \in SUBSET Entries : Passes(i, e, failed, unread)
    <3>1. {} \in SUBSET Entries /\ {e} \in SUBSET Entries
      OBVIOUS
    <3> QED
      BY <1>9, <3>1 DEF AdoptPasses
  <2>3. look' \in [Instances -> Look]
    BY <2>a, PassesT
  <2>4. UNCHANGED <<dir, from, srv, sizes, foreign, claimed, jobs, put, read, stream, proved, weak>>
    BY <1>9 DEF AdoptPasses, files, store, io, ghosts
  <2> QED
    BY <2>1, <2>2, <2>3, <2>4 DEF TypeOK
<1>10. ASSUME NEW e \in Entries, AdoptTakes(i, e) PROVE TypeOK'
  <2>1. look[i].at \in Instances
    BY <1>10, LookedT DEF AdoptTakes, Looks
  <2>2. TakenAs(i, look[i].at, e) \in Build /\ WholeFor(TakenAs(i, look[i].at, e)) \in Header
    BY <2>1, TakenT
  <2>3. kv' \in [Instances -> [Entries -> Header]] /\ disk' \in [Instances -> [Entries -> Header]]
    BY <1>10, <2>1, <2>2, SettledT DEF AdoptTakes
  <2>4. from' \in [Instances -> [Entries -> Build]]
    BY <1>10, <2>2 DEF TypeOK, AdoptTakes
  <2>5. look' \in [Instances -> Look]
    <3>1. look[i] \in Look
      BY TypeAt
    <3>2. [look[i] EXCEPT !.phase = "move", !.mv = e, !.as = TakenAs(i, look[i].at, e)] \in Look
      BY <3>1, <2>2 DEF Look
    <3>3. look' = [look EXCEPT ![i] = [look[i] EXCEPT !.phase = "move", !.mv = e, !.as = TakenAs(i, look[i].at, e)]]
      BY <1>10 DEF AdoptTakes
    <3> QED
      BY <3>2, <3>3, LookSet
  <2>6. UNCHANGED <<dir, srv, sizes, foreign, claimed, jobs, put, read, stream, proved, weak>>
    BY <1>10 DEF AdoptTakes, files, store, io, ghosts
  <2> QED
    BY <2>1, <2>2, <2>3, <2>4, <2>5, <2>6 DEF TypeOK
<1>11. CASE AdoptMove(i)
  <2>1. look[i].at \in Instances /\ look[i].mv \in Entries /\ look[i].as \in Build
    BY <1>11, LookedT DEF AdoptMove
  <2> DEFINE d == look[i].at  e == look[i].mv
  <2>2. kv' \in [Instances -> [Entries -> Header]]
    <3>1. kv \in [Instances -> [Entries -> Header]] /\ kv' = [kv EXCEPT ![i][e] = kv[d][e], ![d][e] = NoFile]
      BY <1>11 DEF TypeOK, AdoptMove
    <3>2. kv[d][e] \in Header /\ NoFile \in Header
      BY <2>1, <3>1, NoFileT
    <3> HIDE DEF d, e
    <3>3. [kv EXCEPT ![i][e] = kv[d][e]] \in [Instances -> [Entries -> Header]]
      BY <3>1, <3>2
    <3>4. [kv EXCEPT ![i][e] = kv[d][e], ![d][e] = NoFile] \in [Instances -> [Entries -> Header]]
      BY <3>2, <3>3
    <3> QED
      BY <3>1, <3>4
  <2>3. disk' \in [Instances -> [Entries -> Header]]
    <3>1. disk \in [Instances -> [Entries -> Header]] /\ disk' = [disk EXCEPT ![i][e] = disk[d][e], ![d][e] = NoFile]
      BY <1>11 DEF TypeOK, AdoptMove
    <3>2. disk[d][e] \in Header /\ NoFile \in Header
      BY <2>1, <3>1, NoFileT
    <3> HIDE DEF d, e
    <3>3. [disk EXCEPT ![i][e] = disk[d][e]] \in [Instances -> [Entries -> Header]]
      BY <3>1, <3>2
    <3>4. [disk EXCEPT ![i][e] = disk[d][e], ![d][e] = NoFile] \in [Instances -> [Entries -> Header]]
      BY <3>2, <3>3
    <3> QED
      BY <3>1, <3>4
  <2>4. sizes' \in [Instances -> SUBSET Entries]
    BY <1>11, <2>1 DEF TypeOK, AdoptMove
  <2>5. foreign' \in [Instances -> [Entries -> Build]]
    <3>1. foreign \in [Instances -> [Entries -> Build]] /\ foreign' = [foreign EXCEPT ![i][e] = IF look[i].as = Mine(i) THEN NoBuild ELSE look[i].as]
      BY <1>11 DEF TypeOK, AdoptMove
    <3> QED
      BY <2>1, <3>1, NoFileT
  <2>6. look' \in [Instances -> Look]
    <3> DEFINE next == IF from[d][e] = NoBuild THEN "adopt" ELSE "beside"
               took == look[i].took \/ look[i].as # Mine(i)
    <3>1. look[i] \in Look /\ next \in {"adopt", "beside"} /\ took \in BOOLEAN
      BY TypeAt
    <3>2. look' = [look EXCEPT ![i] = [look[i] EXCEPT !.phase = next, !.todo = IF next = "adopt" THEN @ \ {e} ELSE @, !.took = took]]
      BY <1>11 DEF AdoptMove
    <3> HIDE DEF next, took, e
    <3>3. [look[i] EXCEPT !.phase = next, !.todo = IF next = "adopt" THEN @ \ {e} ELSE @, !.took = took] \in Look
      BY ZenonT(60), <3>1 DEF Look
    <3> QED
      BY <3>2, <3>3, LookSet
  <2>7. UNCHANGED <<dir, from, srv, claimed, jobs, put, read, stream, proved, weak>>
    BY <1>11 DEF AdoptMove, files, store, io, ghosts
  <2> QED
    BY <2>1, <2>2, <2>3, <2>4, <2>5, <2>6, <2>7 DEF TypeOK
<1>12. CASE AdoptMoveFails(i)
  <2>1. from' \in [Instances -> [Entries -> Build]]
    BY <1>12, LookedT, NoFileT DEF TypeOK, AdoptMoveFails
  <2>2. look' \in [Instances -> Look]
    <3>1. look[i] \in Look
      BY TypeAt
    <3>2. [look[i] EXCEPT !.phase = "adopt", !.todo = @ \ {look[i].mv}, !.retain = TRUE] \in Look
      BY <3>1 DEF Look
    <3>3. look' = [look EXCEPT ![i] = [look[i] EXCEPT !.phase = "adopt", !.todo = @ \ {look[i].mv}, !.retain = TRUE]]
      BY <1>12 DEF AdoptMoveFails
    <3> QED
      BY <3>2, <3>3, LookSet
  <2>3. UNCHANGED <<dir, kv, disk, srv, sizes, foreign, claimed, jobs, put, read, stream, proved, weak>>
    BY <1>12 DEF AdoptMoveFails, files, store, io, ghosts
  <2> QED
    BY <2>1, <2>2, <2>3 DEF TypeOK
<1>13. CASE AdoptBeside(i)
  <2>1. from' \in [Instances -> [Entries -> Build]]
    BY <1>13, LookedT, NoFileT DEF TypeOK, AdoptBeside
  <2>2. look' \in [Instances -> Look]
    <3>1. look[i] \in Look
      BY TypeAt
    <3>2. [look[i] EXCEPT !.phase = "adopt", !.todo = @ \ {look[i].mv}] \in Look
      BY <3>1 DEF Look
    <3>3. look' = [look EXCEPT ![i] = [look[i] EXCEPT !.phase = "adopt", !.todo = @ \ {look[i].mv}]]
      BY <1>13 DEF AdoptBeside
    <3> QED
      BY <3>2, <3>3, LookSet
  <2>3. UNCHANGED <<dir, kv, disk, srv, sizes, foreign, claimed, jobs, put, read, stream, proved, weak>>
    BY <1>13 DEF AdoptBeside, files, store, io, ghosts
  <2> QED
    BY <2>1, <2>2, <2>3 DEF TypeOK
<1>14. CASE SweepLeave(i)
  <2>1. look[i].at \in Instances
    BY <1>14, LookedT DEF SweepLeave, SweepDone
  <2>2. dir' \in [Instances -> Directory]
    <3>1. dir[look[i].at] \in Directory
      BY <2>1, TypeAt
    <3>2. [dir[look[i].at] EXCEPT !.lock = IF @ = i THEN Nobody ELSE @] \in Directory
      BY <3>1 DEF Directory
    <3>3. dir' = [dir EXCEPT ![look[i].at] = [dir[look[i].at] EXCEPT !.lock = IF @ = i THEN Nobody ELSE @]]
      BY <1>14 DEF SweepLeave, SweepDone
    <3> QED
      BY <2>1, <3>2, <3>3, DirSet
  <2>3. look' \in [Instances -> Look]
    BY <1>14, EndedT, LookSet DEF SweepLeave
  <2>4. UNCHANGED <<kv, from, disk, srv, sizes, foreign, claimed, jobs, put, read, stream, proved, weak>>
    BY <1>14 DEF SweepLeave, files, store, io, ghosts
  <2> QED
    BY <2>1, <2>2, <2>3, <2>4 DEF TypeOK
<1>15. CASE SweepCondemn(i)
  <2>1. look[i].at \in Instances
    BY <1>15, LookedT DEF SweepCondemn, SweepDone
  <2>2. dir' \in [Instances -> Directory]
    <3>1. dir[look[i].at] \in Directory
      BY <2>1, TypeAt
    <3>2. [dir[look[i].at] EXCEPT !.lock = IF @ = i THEN Nobody ELSE @] \in Directory
      BY <3>1 DEF Directory
    <3>3. dir' = [dir EXCEPT ![look[i].at] = [dir[look[i].at] EXCEPT !.lock = IF @ = i THEN Nobody ELSE @]]
      BY <1>15 DEF SweepCondemn, SweepDone
    <3> QED
      BY <2>1, <3>2, <3>3, DirSet
  <2>3. look' \in [Instances -> Look]
    <3>1. LookEnded(look[i]) \in Look
      BY EndedT
    <3>2. [LookEnded(look[i]) EXCEPT !.at = look[i].at, !.phase = "remove"] \in Look
      BY <2>1, <3>1 DEF Look
    <3> QED
      BY <1>15, <3>2, LookSet DEF SweepCondemn
  <2>4. UNCHANGED <<kv, from, disk, srv, sizes, foreign, claimed, jobs, put, read, stream, proved, weak>>
    BY <1>15 DEF SweepCondemn, files, store, io, ghosts
  <2> QED
    BY <2>1, <2>2, <2>3, <2>4 DEF TypeOK
<1>16. CASE SweepRemove(i)
  <2>1. look[i].at \in Instances
    BY <1>16, LookedT DEF SweepRemove
  <2>2. dir' \in [Instances -> Directory] /\ kv' \in [Instances -> [Entries -> Header]] /\ from' \in [Instances -> [Entries -> Build]] /\ disk' \in [Instances -> [Entries -> Header]]
    BY <1>16, <2>1, RemovedAllT DEF SweepRemove
  <2>3. look' \in [Instances -> Look]
    BY <1>16, EndedT, LookSet DEF SweepRemove
  <2>4. UNCHANGED <<srv, sizes, foreign, claimed, jobs, put, read, stream, proved, weak>>
    BY <1>16 DEF SweepRemove, files, store, io, ghosts
  <2> QED
    BY <2>1, <2>2, <2>3, <2>4 DEF TypeOK
<1>17. ASSUME NEW e \in Entries, Put(i, e) PROVE TypeOK'
  <2>1. jobs' \in [Instances -> Seq(Job)] /\ (\A k \in Instances : Len(jobs'[k]) <= MaxJobs)
    BY <1>17, QueuedT DEF Put, Calling
  <2>2. proved' \in [Entries -> SUBSET Builds]
    BY <1>17, MineT DEF TypeOK, Put
  <2>3. UNCHANGED <<dir, kv, from, disk, srv, sizes, foreign, claimed, put, read, stream, look, weak>>
    BY <1>17 DEF Put, files, store, io, ghosts
  <2> QED
    BY <2>1, <2>2, <2>3 DEF TypeOK
<1>18. ASSUME NEW e \in Entries, Get(i, e) PROVE TypeOK'
  <2>1. jobs' \in [Instances -> Seq(Job)] /\ (\A k \in Instances : Len(jobs'[k]) <= MaxJobs)
    BY <1>18, QueuedT DEF Get, Calling
  <2>2. UNCHANGED <<dir, kv, from, disk, srv, sizes, foreign, claimed, put, read, stream, look, proved, weak>>
    BY <1>18 DEF Get, files, store, io, ghosts
  <2> QED
    BY <2>1, <2>2 DEF TypeOK
<1>19. ASSUME NEW e \in Entries, Claim(i, e) PROVE TypeOK'
  <2>1. jobs' \in [Instances -> Seq(Job)] /\ (\A k \in Instances : Len(jobs'[k]) <= MaxJobs)
    BY <1>19, QueuedT DEF Claim, Calling
  <2>2. claimed' \in [Instances -> SUBSET Entries]
    BY <1>19 DEF TypeOK, Claim
  <2>3. proved' \in [Entries -> SUBSET Builds]
    BY <1>19, MineT DEF TypeOK, Claim
  <2>4. UNCHANGED <<dir, kv, from, disk, srv, sizes, foreign, put, read, stream, look, weak>>
    BY <1>19 DEF Claim, files, store, io, ghosts
  <2> QED
    BY <2>1, <2>2, <2>3, <2>4 DEF TypeOK
<1>20. ASSUME NEW e \in Entries, Cancel(i, e) PROVE TypeOK'
  <2>1. (jobs' \in [Instances -> Seq(Job)] /\ (\A k \in Instances : Len(jobs'[k]) <= MaxJobs)) /\ put' \in [Instances -> Write]
    BY <1>20, CancelledT DEF Cancel
  <2>2. UNCHANGED <<dir, kv, from, disk, srv, sizes, foreign, claimed, read, stream, look, proved, weak>>
    BY <1>20 DEF Cancel, files, store, io, ghosts
  <2> QED
    BY <2>1, <2>2 DEF TypeOK
<1>21. ASSUME NEW e \in Entries, Evict(i, e) PROVE TypeOK'
  <2>1. (jobs' \in [Instances -> Seq(Job)] /\ (\A k \in Instances : Len(jobs'[k]) <= MaxJobs)) /\ put' \in [Instances -> Write]
    BY <1>21, CancelledT DEF Evict
  <2>2. sizes' \in [Instances -> SUBSET Entries] /\ foreign' \in [Instances -> [Entries -> Build]]
    BY <1>21, ForgottenT DEF Evict
  <2>3. kv' \in [Instances -> [Entries -> Header]] /\ from' \in [Instances -> [Entries -> Build]] /\ disk' \in [Instances -> [Entries -> Header]]
    BY <1>21, RemovedT DEF Evict
  <2>4. UNCHANGED <<dir, srv, claimed, read, stream, look, proved, weak>>
    BY <1>21 DEF Evict, files, store, io, ghosts
  <2> QED
    BY <2>1, <2>2, <2>3, <2>4 DEF TypeOK
<1>22. ASSUME NEW e \in Entries, OpenEntry(i, e) PROVE TypeOK'
  <2>1. WrittenAs(i, e) \in Build
    BY MineT DEF WrittenAs, TypeOK
  <2>2. stream' \in [Instances -> Stream]
    BY <1>22, <2>1, StreamSet DEF OpenEntry, Stream
  <2>3. UNCHANGED <<dir, kv, from, disk, srv, sizes, foreign, claimed, jobs, put, read, look, proved, weak>>
    BY <1>22 DEF OpenEntry, files, store, io, ghosts
  <2> QED
    BY <2>1, <2>2, <2>3 DEF TypeOK
<1>23. CASE OpenWhole(i)
  <2>1. stream' \in [Instances -> Stream]
    BY <1>23, NoneT, StreamSet DEF OpenWhole, OpenEnds
  <2>2. UNCHANGED <<dir, kv, from, disk, srv, sizes, foreign, claimed, jobs, put, read, look, proved, weak>>
    BY <1>23 DEF OpenWhole, files, store, io, ghosts
  <2> QED
    BY <2>1, <2>2 DEF TypeOK
<1>24. CASE OpenBad(i)
  <2>1. stream[i].e \in Entries
    BY JobT
  <2>2. stream' \in [Instances -> Stream]
    BY <1>24, NoneT, StreamSet DEF OpenBad, OpenEnds
  <2>3. sizes' \in [Instances -> SUBSET Entries] /\ foreign' \in [Instances -> [Entries -> Build]]
    BY <1>24, <2>1, ForgottenT DEF OpenBad
  <2>4. kv' \in [Instances -> [Entries -> Header]] /\ from' \in [Instances -> [Entries -> Build]] /\ disk' \in [Instances -> [Entries -> Header]]
    BY <1>24, <2>1, RemovedT DEF OpenBad
  <2>5. UNCHANGED <<dir, srv, claimed, jobs, put, read, look, proved, weak>>
    BY <1>24 DEF OpenBad, files, store, io, ghosts
  <2> QED
    BY <2>1, <2>2, <2>3, <2>4, <2>5 DEF TypeOK
<1>25. CASE TakeRead(i)
  <2> DEFINE k == FirstRead(i)  j == jobs[i][k]
  <2>1. jobs[i] \in Seq(Job) /\ Len(jobs[i]) <= MaxJobs /\ Reads(i) # {}
    BY <1>25 DEF TypeOK, TakeRead
  <2>2. k \in 1 .. Len(jobs[i])
    BY <2>1, FirstReadT
  <2>3. j \in Job
    BY <2>1, <2>2
  <2>4. jobs' \in [Instances -> Seq(Job)] /\ (\A n \in Instances : Len(jobs'[n]) <= MaxJobs)
    <3>1. RemoveAt(jobs[i], k) \in Seq(Job) /\ Len(RemoveAt(jobs[i], k)) = Len(jobs[i]) - 1
      BY <2>1, <2>2, Removal
    <3>2. Len(RemoveAt(jobs[i], k)) <= MaxJobs
      BY <2>1, <3>1 DEF DiskStoreAssumption
    <3>3. jobs' = [jobs EXCEPT ![i] = RemoveAt(jobs[i], k)]
      BY <1>25 DEF TakeRead
    <3> QED
      BY <3>1, <3>2, <3>3, JobsSet
  <2>5. read' \in [Instances -> Read]
    <3>1. [at |-> "check", job |-> j, theirs |-> NoBuild] \in Read /\ read[i] \in Read
      BY <2>3, TypeAt DEF Read, Build
    <3>2. read' = [read EXCEPT ![i] = IF j.e \in sizes[i] THEN [at |-> "check", job |-> j, theirs |-> NoBuild] ELSE @]
      BY <1>25 DEF TakeRead
    <3> QED
      BY <3>1, <3>2, ReadSet
  <2>6. UNCHANGED <<dir, kv, from, disk, srv, sizes, foreign, claimed, put, stream, look, proved, weak>>
    BY <1>25 DEF TakeRead, files, store, io, ghosts
  <2> QED
    BY <2>1, <2>2, <2>3, <2>4, <2>5, <2>6 DEF TypeOK
<1>26. CASE ReadBad(i)
  <2>1. read[i].job.e \in Entries
    BY JobT
  <2>2. read' \in [Instances -> Read]
    BY <1>26, ReadEndsT DEF ReadBad, Dropped
  <2>3. sizes' \in [Instances -> SUBSET Entries] /\ foreign' \in [Instances -> [Entries -> Build]]
    BY <1>26, <2>1, ForgottenT DEF ReadBad, Dropped
  <2>4. kv' \in [Instances -> [Entries -> Header]] /\ from' \in [Instances -> [Entries -> Build]] /\ disk' \in [Instances -> [Entries -> Header]]
    BY <1>26, <2>1, RemovedT DEF ReadBad, Dropped
  <2>5. UNCHANGED <<dir, srv, claimed, jobs, put, stream, look, proved, weak>>
    BY <1>26 DEF ReadBad, files, store, io, ghosts
  <2> QED
    BY <2>1, <2>2, <2>3, <2>4, <2>5 DEF TypeOK
<1>27. CASE ReadWhole(i)
  <2>1. read' \in [Instances -> Read]
    BY <1>27, ReadEndsT DEF ReadWhole
  <2>2. UNCHANGED <<dir, kv, from, disk, srv, sizes, foreign, claimed, jobs, put, stream, look, proved, weak>>
    BY <1>27 DEF ReadWhole, files, store, io, ghosts
  <2> QED
    BY <2>1, <2>2 DEF TypeOK
<1>28. CASE ClaimBegins(i)
  <2>1. foreign[i][read[i].job.e] \in Build
    BY JobT DEF TypeOK
  <2>2. read' \in [Instances -> Read]
    <3>1. read[i] \in Read
      BY TypeAt
    <3>2. [read[i] EXCEPT !.at = "field", !.theirs = foreign[i][read[i].job.e]] \in Read
      BY <3>1, <2>1 DEF Read
    <3>3. read' = [read EXCEPT ![i] = [read[i] EXCEPT !.at = "field", !.theirs = foreign[i][read[i].job.e]]]
      BY <1>28 DEF ClaimBegins
    <3> QED
      BY <3>2, <3>3, ReadSet
  <2>3. UNCHANGED <<dir, kv, from, disk, srv, sizes, foreign, claimed, jobs, put, stream, look, proved, weak>>
    BY <1>28 DEF ClaimBegins, files, store, io, ghosts
  <2> QED
    BY <2>1, <2>2, <2>3 DEF TypeOK
<1>29. CASE RewriteField(i)
  <2>1. read[i].job.e \in Entries /\ Mine(i) \in Build
    BY JobT, MineT
  <2>2. read' \in [Instances -> Read]
    BY <1>29, ReadAtT DEF RewriteField
  <2>3. kv' \in [Instances -> [Entries -> Header]]
    <3>1. kv[i][read[i].job.e] \in Header
      BY <2>1 DEF TypeOK
    <3>2. [kv[i][read[i].job.e] EXCEPT !.f = Mine(i)] \in Header
      BY <2>1, <3>1 DEF Header
    <3>3. kv' = [kv EXCEPT ![i][read[i].job.e] = [kv[i][read[i].job.e] EXCEPT !.f = Mine(i)]]
      BY <1>29 DEF RewriteField
    <3> QED
      BY <2>1, <3>2, <3>3 DEF TypeOK
  <2>4. UNCHANGED <<dir, from, disk, srv, sizes, foreign, claimed, jobs, put, stream, look, proved, weak>>
    BY <1>29 DEF RewriteField, files, store, io, ghosts
  <2> QED
    BY <2>1, <2>2, <2>3, <2>4 DEF TypeOK
<1>30. CASE RewriteSum(i)
  <2>1. read[i].job.e \in Entries /\ WholeFor(Mine(i)) \in Header
    BY JobT, MineT, WholeT
  <2>2. read' \in [Instances -> Read]
    BY <1>30, ReadAtT DEF RewriteSum
  <2>3. kv' \in [Instances -> [Entries -> Header]]
    BY <1>30, <2>1 DEF TypeOK, RewriteSum
  <2>4. UNCHANGED <<dir, from, disk, srv, sizes, foreign, claimed, jobs, put, stream, look, proved, weak>>
    BY <1>30 DEF RewriteSum, files, store, io, ghosts
  <2> QED
    BY <2>1, <2>2, <2>3, <2>4 DEF TypeOK
<1>31. CASE RewriteSync(i)
  <2>1. read[i].job.e \in Entries
    BY JobT
  <2>2. read' \in [Instances -> Read]
    BY <1>31, ReadAtT DEF RewriteSync
  <2>3. disk' \in [Instances -> [Entries -> Header]]
    BY <1>31, <2>1 DEF TypeOK, RewriteSync
  <2>4. UNCHANGED <<dir, kv, from, srv, sizes, foreign, claimed, jobs, put, stream, look, proved, weak>>
    BY <1>31 DEF RewriteSync, files, store, io, ghosts
  <2> QED
    BY <2>1, <2>2, <2>3, <2>4 DEF TypeOK
<1>32. CASE RewriteFails(i)
  <2>1. read[i].job.e \in Entries
    BY JobT
  <2>2. read' \in [Instances -> Read]
    BY <1>32, ReadAtT DEF RewriteFails
  <2>3. weak' \in SUBSET Entries
    BY <1>32, <2>1 DEF TypeOK, RewriteFails
  <2>4. UNCHANGED <<dir, kv, from, disk, srv, sizes, foreign, claimed, jobs, put, stream, look, proved>>
    BY <1>32 DEF RewriteFails, files, store, io, ghosts
  <2> QED
    BY <2>1, <2>2, <2>3, <2>4 DEF TypeOK
<1>33. CASE RewriteBeside(i)
  <2>1. read[i].job.e \in Entries
    BY JobT
  <2>2. read' \in [Instances -> Read]
    BY <1>33, ReadEndsT DEF RewriteBeside
  <2>3. from' \in [Instances -> [Entries -> Build]]
    BY <1>33, <2>1, NoFileT DEF TypeOK, RewriteBeside
  <2>4. foreign' \in [Instances -> [Entries -> Build]]
    BY <1>33, <2>1, NoFileT DEF TypeOK, RewriteBeside
  <2>5. UNCHANGED <<dir, kv, disk, srv, sizes, claimed, jobs, put, stream, look, proved, weak>>
    BY <1>33 DEF RewriteBeside, files, store, io, ghosts
  <2> QED
    BY <2>1, <2>2, <2>3, <2>4, <2>5 DEF TypeOK
<1>34. CASE SettleFails(i)
  <2>1. read' \in [Instances -> Read]
    BY <1>34, ReadEndsT DEF SettleFails
  <2>2. UNCHANGED <<dir, kv, from, disk, srv, sizes, foreign, claimed, jobs, put, stream, look, proved, weak>>
    BY <1>34 DEF SettleFails, files, store, io, ghosts
  <2> QED
    BY <2>1, <2>2 DEF TypeOK
<1>35. CASE ClaimLost(i)
  <2>1. read[i].job.e \in Entries
    BY JobT
  <2>2. read' \in [Instances -> Read]
    BY <1>35, ReadEndsT DEF ClaimLost, Dropped
  <2>3. sizes' \in [Instances -> SUBSET Entries] /\ foreign' \in [Instances -> [Entries -> Build]]
    BY <1>35, <2>1, ForgottenT DEF ClaimLost, Dropped
  <2>4. kv' \in [Instances -> [Entries -> Header]] /\ from' \in [Instances -> [Entries -> Build]] /\ disk' \in [Instances -> [Entries -> Header]]
    BY <1>35, <2>1, RemovedT DEF ClaimLost, Dropped
  <2>5. UNCHANGED <<dir, srv, claimed, jobs, put, stream, look, proved, weak>>
    BY <1>35 DEF ClaimLost, files, store, io, ghosts
  <2> QED
    BY <2>1, <2>2, <2>3, <2>4, <2>5 DEF TypeOK
<1>36. CASE ClaimKept(i)
  <2>1. read[i].job.e \in Entries
    BY JobT
  <2>2. WholeFor(ClaimedBy(i)) \in Header
    <3>1. kv[i][read[i].job.e] \in Header
      BY <2>1 DEF TypeOK
    <3> QED
      BY <3>1, OwnerT, WholeT DEF ClaimedBy
  <2>3. read' \in [Instances -> Read]
    BY <1>36, ReadEndsT DEF ClaimKept
  <2>4. kv' \in [Instances -> [Entries -> Header]] /\ disk' \in [Instances -> [Entries -> Header]]
    BY <1>36, <2>1, <2>2, SettledT DEF ClaimKept
  <2>5. foreign' \in [Instances -> [Entries -> Build]]
    BY <1>36, <2>1, NoFileT DEF TypeOK, ClaimKept
  <2>6. UNCHANGED <<dir, from, srv, sizes, claimed, jobs, put, stream, look, proved, weak>>
    BY <1>36 DEF ClaimKept, files, store, io, ghosts
  <2> QED
    BY <2>1, <2>2, <2>3, <2>4, <2>5, <2>6 DEF TypeOK
<1>37. CASE TakePut(i)
  <2>1. jobs[i] \in Seq(Job) /\ jobs[i] # <<>> /\ Len(jobs[i]) <= MaxJobs
    BY <1>37 DEF TypeOK, TakePut, ToPut
  <2>2. Head(jobs[i]) \in Job /\ Tail(jobs[i]) \in Seq(Job) /\ Len(Tail(jobs[i])) <= MaxJobs
    BY <2>1 DEF DiskStoreAssumption
  <2>3. jobs' \in [Instances -> Seq(Job)] /\ (\A k \in Instances : Len(jobs'[k]) <= MaxJobs)
    BY <1>37, <2>2, JobsSet DEF TakePut, ToPut
  <2>4. put' \in [Instances -> Write]
    BY <1>37, <2>2, PutSet DEF TakePut, Write
  <2>5. Head(jobs[i]).e \in Entries
    BY <2>2 DEF Job
  <2>6. dir' \in [Instances -> Directory]
    <3>1. dir[i] \in Directory
      BY TypeAt
    <3>2. [dir[i] EXCEPT !.tmp = @ \cup {Head(jobs[i]).e}] \in Directory
      BY <3>1, <2>5 DEF Directory
    <3>3. dir' = [dir EXCEPT ![i] = [dir[i] EXCEPT !.tmp = @ \cup {Head(jobs[i]).e}]]
      BY <1>37 DEF TakePut
    <3> QED
      BY <3>2, <3>3, DirSet
  <2>7. UNCHANGED <<kv, from, disk, srv, sizes, foreign, claimed, read, stream, look, proved, weak>>
    BY <1>37 DEF TakePut, files, store, io, ghosts
  <2> QED
    BY <2>1, <2>2, <2>3, <2>4, <2>5, <2>6, <2>7 DEF TypeOK
<1>38. CASE RefusePut(i)
  <2>1. jobs[i] \in Seq(Job) /\ jobs[i] # <<>> /\ Len(jobs[i]) <= MaxJobs
    BY <1>38 DEF TypeOK, RefusePut, ToPut
  <2>2. Tail(jobs[i]) \in Seq(Job) /\ Len(Tail(jobs[i])) <= MaxJobs
    BY <2>1 DEF DiskStoreAssumption
  <2>3. jobs' \in [Instances -> Seq(Job)] /\ (\A k \in Instances : Len(jobs'[k]) <= MaxJobs)
    BY <1>38, <2>2, JobsSet DEF RefusePut, ToPut
  <2>4. UNCHANGED <<dir, kv, from, disk, srv, sizes, foreign, claimed, put, read, stream, look, proved, weak>>
    BY <1>38 DEF RefusePut, files, store, io, ghosts
  <2> QED
    BY <2>1, <2>2, <2>3, <2>4 DEF TypeOK
<1>39. CASE PutWrite(i)
  <2>1. put' \in [Instances -> Write]
    <3>1. put[i] \in Write
      BY TypeAt
    <3>2. [put[i] EXCEPT !.at = "synced"] \in Write
      BY <3>1 DEF Write
    <3>3. put' = [put EXCEPT ![i] = [put[i] EXCEPT !.at = "synced"]]
      BY <1>39 DEF PutWrite
    <3> QED
      BY <3>2, <3>3, PutSet
  <2>2. UNCHANGED <<dir, kv, from, disk, srv, sizes, foreign, claimed, jobs, read, stream, look, proved, weak>>
    BY <1>39 DEF PutWrite, files, store, io, ghosts
  <2> QED
    BY <2>1, <2>2 DEF TypeOK
<1>40. CASE PutRename(i)
  <2>1. put[i].job.e \in Entries /\ WholeFor(Mine(i)) \in Header
    BY JobT, MineT, WholeT
  <2>2. put' \in [Instances -> Write]
    <3>1. put[i] \in Write
      BY TypeAt
    <3>2. [put[i] EXCEPT !.at = "renamed"] \in Write
      BY <3>1 DEF Write
    <3>3. put' = [put EXCEPT ![i] = [put[i] EXCEPT !.at = "renamed"]]
      BY <1>40 DEF PutRename
    <3> QED
      BY <3>2, <3>3, PutSet
  <2>3. kv' \in [Instances -> [Entries -> Header]]
    BY <1>40, <2>1 DEF TypeOK, PutRename
  <2>4. dir' \in [Instances -> Directory]
    BY <1>40, UntempedT DEF PutRename
  <2>5. UNCHANGED <<from, disk, srv, sizes, foreign, claimed, jobs, read, stream, look, proved, weak>>
    BY <1>40 DEF PutRename, files, store, io, ghosts
  <2> QED
    BY <2>1, <2>2, <2>3, <2>4, <2>5 DEF TypeOK
<1>41. CASE PutFails(i)
  <2>1. put' \in [Instances -> Write]
    BY <1>41, WriteEndsT DEF PutFails
  <2>2. dir' \in [Instances -> Directory]
    BY <1>41, UntempedT DEF PutFails
  <2>3. UNCHANGED <<kv, from, disk, srv, sizes, foreign, claimed, jobs, read, stream, look, proved, weak>>
    BY <1>41 DEF PutFails, files, store, io, ghosts
  <2> QED
    BY <2>1, <2>2, <2>3 DEF TypeOK
<1>42. CASE PutCommit(i)
  <2>1. put[i].job.e \in Entries
    BY JobT
  <2>2. put' \in [Instances -> Write]
    BY <1>42, WriteEndsT DEF PutCommit
  <2>3. disk' \in [Instances -> [Entries -> Header]]
    <3>1. PICK h \in {disk[i][put[i].job.e], kv[i][put[i].job.e]} : disk' = [disk EXCEPT ![i][put[i].job.e] = h]
      BY <1>42 DEF PutCommit
    <3>2. h \in Header
      BY <2>1, <3>1 DEF TypeOK
    <3> QED
      BY <2>1, <3>1, <3>2 DEF TypeOK
  <2>4. sizes' \in [Instances -> SUBSET Entries]
    BY <1>42, <2>1 DEF TypeOK, PutCommit
  <2>5. UNCHANGED <<dir, kv, from, srv, foreign, claimed, jobs, read, stream, look, proved, weak>>
    BY <1>42 DEF PutCommit, files, store, io, ghosts
  <2> QED
    BY <2>1, <2>2, <2>3, <2>4, <2>5 DEF TypeOK
<1>43. CASE PutCancelled(i)
  <2>1. put[i].job.e \in Entries
    BY JobT
  <2>2. put' \in [Instances -> Write]
    BY <1>43, WriteEndsT DEF PutCancelled
  <2>3. kv' \in [Instances -> [Entries -> Header]] /\ from' \in [Instances -> [Entries -> Build]] /\ disk' \in [Instances -> [Entries -> Header]]
    BY <1>43, <2>1, RemovedT DEF PutCancelled
  <2>4. UNCHANGED <<dir, srv, sizes, foreign, claimed, jobs, read, stream, look, proved, weak>>
    BY <1>43 DEF PutCancelled, files, store, io, ghosts
  <2> QED
    BY <2>1, <2>2, <2>3, <2>4 DEF TypeOK
<1>44. CASE IdleSweep(i)
  <2>1. look' \in [Instances -> Look]
    BY <1>44, BeginsT DEF IdleSweep
  <2>2. UNCHANGED <<dir, kv, from, disk, srv, sizes, foreign, claimed, jobs, put, read, stream, proved, weak>>
    BY <1>44 DEF IdleSweep, files, store, io, ghosts
  <2> QED
    BY <2>1, <2>2 DEF TypeOK
<1>45. CASE Stop(i)
  <2>1. srv' \in [Instances -> Server]
    BY <1>45, GoesT DEF Stop
  <2>2. jobs' \in [Instances -> Seq(Job)] /\ (\A k \in Instances : Len(jobs'[k]) <= MaxJobs)
    <3> DEFINE s == [k \in DOMAIN jobs[i] |-> [jobs[i][k] EXCEPT !.cancelled = TRUE]]
    <3>1. jobs[i] \in Seq(Job) /\ Len(jobs[i]) <= MaxJobs
      BY DEF TypeOK
    <3>2. DOMAIN jobs[i] = 1 .. Len(jobs[i]) /\ Len(jobs[i]) \in Nat
      BY <3>1
    <3>3. \A k \in 1 .. Len(jobs[i]) : jobs[i][k] \in Job
      BY <3>1
    <3>4. \A k \in 1 .. Len(jobs[i]) : [jobs[i][k] EXCEPT !.cancelled = TRUE] \in Job
      BY <3>3 DEF Job
    <3>5. s \in Seq(Job) /\ Len(s) = Len(jobs[i])
      BY <3>2, <3>4
    <3>6. jobs' = [jobs EXCEPT ![i] = s]
      BY <1>45 DEF Stop
    <3> QED
      BY <3>1, <3>5, <3>6, JobsSet
  <2>3. UNCHANGED <<dir, kv, from, disk, sizes, foreign, claimed, put, read, stream, look, proved, weak>>
    BY <1>45 DEF Stop, files, store, io, ghosts
  <2> QED
    BY <2>1, <2>2, <2>3 DEF TypeOK
<1>46. CASE Leave(i)
  <2>1. srv[i].cfg.keep \in BOOLEAN /\ dir[i].there \in BOOLEAN
    <3>1. srv[i] \in Server /\ dir[i] \in Directory
      BY TypeAt
    <3>2. srv[i].cfg \in Config
      BY <3>1 DEF Server
    <3> QED
      BY <3>1, <3>2 DEF Config, Directory
  <2>2. dir' \in [Instances -> Directory]
    <3>1. dir[i] \in Directory
      BY TypeAt
    <3>2. [dir[i] EXCEPT !.lock = Nobody, !.kept = srv[i].cfg.keep /\ dir[i].there] \in Directory
      BY <3>1, <2>1 DEF Directory
    <3>3. dir' = [dir EXCEPT ![i] = [dir[i] EXCEPT !.lock = Nobody, !.kept = srv[i].cfg.keep /\ dir[i].there]]
      BY <1>46 DEF Leave
    <3> QED
      BY <3>2, <3>3, DirSet
  <2>3. srv' \in [Instances -> Server]
    BY <1>46, GoesT DEF Leave
  <2>4. sizes' \in [Instances -> SUBSET Entries] /\ foreign' \in [Instances -> [Entries -> Build]] /\ claimed' \in [Instances -> SUBSET Entries] /\ (jobs' \in [Instances -> Seq(Job)] /\ (\A k \in Instances : Len(jobs'[k]) <= MaxJobs)) /\ put' \in [Instances -> Write] /\ read' \in [Instances -> Read] /\ stream' \in [Instances -> Stream] /\ look' \in [Instances -> Look]
    BY <1>46, MemoryT DEF Leave
  <2>5. UNCHANGED <<kv, from, disk, proved, weak>>
    BY <1>46 DEF Leave, files, store, io, ghosts
  <2> QED
    BY <2>1, <2>2, <2>3, <2>4, <2>5 DEF TypeOK
<1>47. CASE RemoveOwn(i)
  <2>1. dir' \in [Instances -> Directory] /\ kv' \in [Instances -> [Entries -> Header]] /\ from' \in [Instances -> [Entries -> Build]] /\ disk' \in [Instances -> [Entries -> Header]]
    BY <1>47, RemovedAllT DEF RemoveOwn
  <2>2. srv' \in [Instances -> Server]
    BY <1>47, GoesT DEF RemoveOwn
  <2>3. UNCHANGED <<sizes, foreign, claimed, jobs, put, read, stream, look, proved, weak>>
    BY <1>47 DEF RemoveOwn, files, store, io, ghosts
  <2> QED
    BY <2>1, <2>2, <2>3 DEF TypeOK
<1>48. CASE Kill(i)
  <2>1. dir' \in [Instances -> Directory]
    BY <1>48, UnlockedT DEF Kill
  <2>2. srv' \in [Instances -> Server]
    BY <1>48, GoesT DEF Kill
  <2>3. sizes' \in [Instances -> SUBSET Entries] /\ foreign' \in [Instances -> [Entries -> Build]] /\ claimed' \in [Instances -> SUBSET Entries] /\ (jobs' \in [Instances -> Seq(Job)] /\ (\A k \in Instances : Len(jobs'[k]) <= MaxJobs)) /\ put' \in [Instances -> Write] /\ read' \in [Instances -> Read] /\ stream' \in [Instances -> Stream] /\ look' \in [Instances -> Look]
    BY <1>48, MemoryT DEF Kill
  <2>4. weak' \in SUBSET Entries
    BY <1>48, JobT DEF TypeOK, Kill
  <2>5. UNCHANGED <<kv, from, disk, proved>>
    BY <1>48 DEF Kill, files, store, io, ghosts
  <2> QED
    BY <2>1, <2>2, <2>3, <2>4, <2>5 DEF TypeOK
<1> QED
  BY <1>1, <1>2, <1>3, <1>4, <1>5, <1>6, <1>7, <1>8, <1>9, <1>10, <1>11, <1>12, <1>13, <1>14, <1>15, <1>16, <1>17, <1>18, <1>19, <1>20, <1>21,
     <1>22, <1>23, <1>24, <1>25, <1>26, <1>27, <1>28, <1>29, <1>30, <1>31, <1>32, <1>33, <1>34, <1>35, <1>36, <1>37, <1>38, <1>39, <1>40, <1>41,
     <1>42, <1>43, <1>44, <1>45, <1>46, <1>47, <1>48 DEF Acts, Start, Sweep, Call, ReadIO, ClaimSettle, PutIO, End

\* The locks, and what a sweep is at.
LEMMA LocksKept ==
  ASSUME DiskStoreAssumption, TypeOK, LocksI, NEW i \in Instances, Acts(i)
  PROVE  LocksI'
<1>1. CASE MakeDirectory(i)
  BY <1>1 DEF LocksI, MakeDirectory, Adopts, Locks, Mine, Opened, Serving, files, io
<1>2. CASE TakeLock(i)
  BY <1>2 DEF TypeOK, LocksI, TakeLock, Adopts, Goes, Locks, Mine, Opened, Serving, files, io
<1>3. CASE LockRefused(i)
  BY <1>3 DEF LocksI, LockRefused, Adopts, Goes, Locks, Mine, Opened, Serving, files, io
<1>4. CASE KeepIdentity(i)
  BY <1>4 DEF LocksI, KeepIdentity, Adopts, Begins, Directories, Locks, Mine, Opened, Serving, files, io
<1>5. ASSUME NEW d \in Instances, SweepNext(i, d) PROVE LocksI'
  BY <1>5 DEF DiskStoreAssumption, TypeOK, LocksI, SweepNext, Adopts, Directory, Files, Locks, Look, Mine, NoFile, Opened, Serving, SweepsOn, files,
     io
<1>6. ASSUME NEW d \in Instances, SweepPasses(i, d) PROVE LocksI'
  BY <1>6 DEF LocksI, SweepPasses, Adopts, Locks, Mine, Opened, Serving, SweepsOn, files, io
<1>7. CASE SweepEnd(i)
  <2> SUFFICES ASSUME NEW k \in Instances PROVE Locks(k)'
    BY DEF LocksI
  <2>1. Locks(k) /\ UNCHANGED <<dir, read, put, jobs, stream>>
    BY <1>7 DEF SweepEnd, LocksI, files, store, io
  <2>2. look[i] \in Look /\ srv[i] \in Server
    BY TypeAt
  <2>3. look' = [look EXCEPT ![i] = [look[i] EXCEPT !.sweep = "no"]] /\ srv' = [srv EXCEPT ![i] = [srv[i] EXCEPT !.pc = IF srv[i].pc = "locked" THEN "run" ELSE srv[i].pc]]
    BY <1>7 DEF SweepEnd, Goes
  <2>4. CASE k # i
    <3>1. look'[k] = look[k] /\ srv'[k] = srv[k]
      BY <2>3, <2>4 DEF TypeOK
    <3> QED
      BY <2>1, <3>1 DEF Locks, Opened, Adopts, Serving, Mine
  <2>5. CASE k = i
    <3>1. /\ look'[i].sweep = "no" /\ look'[i].left = {} /\ look'[i].at = Nobody /\ look'[i].phase = look[i].phase /\ look'[i].todo = look[i].todo
          /\ look'[i].mv = look[i].mv /\ look'[i].took = look[i].took /\ look'[i].as = look[i].as
      BY <1>7, <2>2, <2>3 DEF TypeOK, SweepEnd, Look
    <3>2. srv'[i].cfg = srv[i].cfg /\ srv'[i].pc = IF srv[i].pc = "locked" THEN "run" ELSE srv[i].pc
      BY <2>2, <2>3 DEF TypeOK, Server
    <3>3. look[i].sweep # "no" /\ look[i].at = Nobody
      BY <1>7 DEF SweepEnd
    <3>4. Opened(i) /\ Opened(i)' /\ (Serving(i) => Serving(i)') /\ srv[i].pc # "off" /\ srv[i].pc # "ended"
      BY <2>1, <2>5, <3>2, <3>3 DEF Locks, Opened, Serving
    <3>5. look[i].phase = "adopt" /\ look[i].todo = {}
      BY <2>1, <2>5, <3>3 DEF Locks
    <3> QED
      BY <2>1, <2>5, <3>1, <3>2, <3>3, <3>4, <3>5 DEF Locks, Opened, Serving, Mine, Adopts
  <2> QED
    BY <2>4, <2>5
<1>8. ASSUME NEW e \in Entries, AdoptLeaves(i, e) PROVE LocksI'
  BY SMTT(60), <1>8 DEF DiskStoreAssumption, TypeOK, LocksI, AdoptLeaves, Adopts, Locks, Look, Looks, Marked, Mine, Opened, Owner, Passes, Serving, Wrote,
     files, ghosts, io, store
<1>9. ASSUME NEW e \in Entries, AdoptPasses(i, e) PROVE LocksI'
  <2>1. PICK failed \in BOOLEAN, unread \in {{}, {e}} : look' = [look EXCEPT ![i] = [look[i] EXCEPT !.todo = @ \ {e}, !.retain = @ \/ failed, !.unread = @ \cup unread]]
    BY <1>9 DEF AdoptPasses, Passes
  <2>2. UNCHANGED <<dir, srv, jobs, put, read, stream>> /\ look \in [Instances -> Look] /\ look[i].at # Nobody /\ look[i].phase = "adopt"
    BY <1>9 DEF AdoptPasses, Looks, TypeOK, io
  <2> QED
    BY <2>1, <2>2 DEF LocksI, Locks, Opened, Adopts, Serving, Look, Mine
<1>10. ASSUME NEW e \in Entries, AdoptTakes(i, e) PROVE LocksI'
  <2>1. UNCHANGED <<dir, srv, jobs, put, read, stream>> /\ look \in [Instances -> Look] /\ look[i].at # Nobody /\ look[i].phase = "adopt" /\ e \in look[i].todo
    BY <1>10 DEF AdoptTakes, Looks, TypeOK, io
  <2>2. look' = [look EXCEPT ![i] = [look[i] EXCEPT !.phase = "move", !.mv = e, !.as = TakenAs(i, look[i].at, e)]] /\ (TakenAs(i, look[i].at, e) # Mine(i) => srv[i].cfg.proved)
    BY <1>10 DEF AdoptTakes
  <2> QED
    BY <2>1, <2>2 DEF LocksI, Locks, Opened, Adopts, Serving, Look, Mine
<1>11. CASE AdoptMove(i)
  <2> DEFINE e == look[i].mv
             next == IF from[look[i].at][e] = NoBuild THEN "adopt" ELSE "beside"
             took == look[i].took \/ look[i].as # Mine(i)
  <2>1. UNCHANGED <<dir, srv, jobs, put, read, stream>> /\ look \in [Instances -> Look] /\ look[i].at # Nobody /\ look[i].phase = "move"
    BY <1>11 DEF AdoptMove, TypeOK, io
  <2>2. look' = [look EXCEPT ![i] = [look[i] EXCEPT !.phase = next, !.todo = IF next = "adopt" THEN @ \ {e} ELSE @, !.took = took]]
    BY <1>11 DEF AdoptMove
  <2>3. next \in {"adopt", "beside"} /\ e = look[i].mv /\ (took => look[i].took \/ look[i].as # Mine(i))
    OBVIOUS
  <2> HIDE DEF next, took
  <2>4. \A k \in Instances : k # i => look'[k] = look[k]
    BY <2>1, <2>2
  <2>5. /\ look'[i].phase = next /\ look'[i].todo = IF next = "adopt" THEN look[i].todo \ {e} ELSE look[i].todo
        /\ look'[i].took = took /\ look'[i].left = look[i].left /\ look'[i].at = look[i].at /\ look'[i].sweep = look[i].sweep /\ look'[i].mv = e
    BY <2>1, <2>2 DEF Look
  <2> QED
    BY <2>1, <2>3, <2>4, <2>5 DEF LocksI, Locks, Opened, Adopts, Serving, Mine
<1>12. CASE AdoptMoveFails(i)
  BY <1>12 DEF LocksI, AdoptMoveFails, Adopts, Locks, Mine, Opened, Serving, io
<1>13. CASE AdoptBeside(i)
  BY <1>13 DEF LocksI, AdoptBeside, Adopts, Locks, Mine, Opened, Serving, io
<1>14. CASE SweepLeave(i)
  BY <1>14 DEF TypeOK, LocksI, SweepLeave, Adopts, Directory, Locks, Look, LookEnded, Mine, NoLook, Opened, Serving, Spared, SweepDone, files, io
<1>15. CASE SweepCondemn(i)
  BY SMTT(60), <1>15 DEF DiskStoreAssumption, TypeOK, LocksI, SweepCondemn, Adopts, Directory, Locks, Look, LookEnded, Mine, NoLook, Opened, Serving, Spared,
     SweepDone, files, ghosts, io, store
<1>16. CASE SweepRemove(i)
  BY <1>16 DEF LocksI, SweepRemove, Adopts, Locks, LookEnded, Mine, NoDirectory, NoFiles, NoLook, Opened, RemovedAll, Serving, Unmarked, io
<1>17. ASSUME NEW e \in Entries, Put(i, e) PROVE LocksI'
  BY <1>17 DEF LocksI, Put, Adopts, Calling, Locks, Mine, Opened, Queued, Serving
<1>18. ASSUME NEW e \in Entries, Get(i, e) PROVE LocksI'
  BY <1>18 DEF LocksI, Get, Adopts, Calling, Locks, Mine, Opened, Queued, Serving
<1>19. ASSUME NEW e \in Entries, Claim(i, e) PROVE LocksI'
  BY <1>19 DEF LocksI, Claim, Adopts, Calling, Locks, Mine, Opened, Queued, Serving
<1>20. ASSUME NEW e \in Entries, Cancel(i, e) PROVE LocksI'
  BY <1>20 DEF LocksI, Cancel, Adopts, Cancelled, IsPut, Locks, Mine, Opened, Puts, Serving
<1>21. ASSUME NEW e \in Entries, Evict(i, e) PROVE LocksI'
  BY <1>21 DEF DiskStoreAssumption, LocksI, Evict, Adopts, Cancelled, Forgotten, IsPut, Locks, Mine, NoFile, Opened, Removed, Serving
<1>22. ASSUME NEW e \in Entries, OpenEntry(i, e) PROVE LocksI'
  BY <1>22 DEF LocksI, OpenEntry, Adopts, Locks, Mine, Opened, Serving, WrittenAs, files, io
<1>23. CASE OpenWhole(i)
  BY <1>23 DEF LocksI, OpenWhole, Adopts, Locks, Mine, NoStream, OpenEnds, Opened, Serving, WholeFor, files, io
<1>24. CASE OpenBad(i)
  BY <1>24 DEF LocksI, OpenBad, Adopts, Forgotten, Locks, Mine, NoFile, NoStream, OpenEnds, Opened, Removed, Serving, WholeFor, io
<1>25. CASE TakeRead(i)
  BY <1>25, TakeReadE DEF LocksI, Locks, Opened, Adopts, Serving, Mine, NoFile
<1>26. CASE ReadBad(i)
  BY <1>26 DEF DiskStoreAssumption, LocksI, ReadBad, Adopts, Dropped, Forgotten, Locks, Mine, NoFile, NoRead, Opened, ReadEnds, Removed, Serving
<1>27. CASE ReadWhole(i)
  BY <1>27 DEF DiskStoreAssumption, TypeOK, LocksI, ReadWhole, Adopts, Checked, Locks, Mine, NoRead, Opened, Read, ReadEnds, Serving, ToClaim,
     WholeFor, WrittenAs
<1>28. CASE ClaimBegins(i)
  BY <1>28 DEF DiskStoreAssumption, TypeOK, LocksI, ClaimBegins, Adopts, Checked, Locks, Mine, Opened, Read, Serving, ToClaim, WholeFor, WrittenAs,
     files
<1>29. CASE RewriteField(i)
  BY <1>29 DEF TypeOK, LocksI, RewriteField, Adopts, Locks, Mine, Opened, Read, ReadAt, Rewriting, Serving
<1>30. CASE RewriteSum(i)
  BY <1>30, RewriteSumE DEF LocksI, Locks, Opened, Adopts, Serving, Mine, NoFile
<1>31. CASE RewriteSync(i)
  BY <1>31 DEF LocksI, RewriteSync, Adopts, Locks, Mine, Opened, ReadAt, Rewriting, Serving
<1>32. CASE RewriteFails(i)
  BY <1>32 DEF LocksI, RewriteFails, Adopts, Locks, Mine, Opened, ReadAt, Serving
<1>33. CASE RewriteBeside(i)
  BY <1>33 DEF LocksI, RewriteBeside, Adopts, Locks, Mine, NoRead, Opened, ReadEnds, Rewriting, Serving
<1>34. CASE SettleFails(i)
  BY <1>34 DEF LocksI, SettleFails, Adopts, Locks, Mine, NoRead, Opened, ReadEnds, Rewriting, Serving
<1>35. CASE ClaimLost(i)
  BY SMTT(60), <1>35 DEF DiskStoreAssumption, TypeOK, LocksI, ClaimLost, Adopts, ClaimedBy, Dropped, Forgotten, Locks, Mine, NoFile, NoRead, Opened, Owner,
     Read, ReadEnds, Removed, Rewriting, Serving, ghosts
<1>36. CASE ClaimKept(i)
  <2>1. UNCHANGED <<dir, srv, look, jobs, put, stream>> /\ read \in [Instances -> Read] /\ read' = [read EXCEPT ![i] = NoRead]
    BY <1>36 DEF ClaimKept, ReadEnds, TypeOK
  <2> QED
    BY <2>1 DEF LocksI, Locks, Opened, Adopts, Serving, NoRead, Mine
<1>37. CASE TakePut(i)
  <2>1. UNCHANGED <<srv, look, read, stream>> /\ Serving(i) /\ put \in [Instances -> Write] /\ jobs \in [Instances -> Seq(Job)] /\ dir \in [Instances -> Directory]
    BY <1>37 DEF TakePut, ToPut, Idle, TypeOK
  <2>2. put' = [put EXCEPT ![i] = [at |-> "tmp", job |-> Head(jobs[i])]] /\ jobs' = [jobs EXCEPT ![i] = Tail(@)]
        /\ dir' = [dir EXCEPT ![i].tmp = @ \cup {Head(jobs[i]).e}]
    BY <1>37 DEF TakePut, ToPut
  <2>3. \A k \in Instances : dir'[k].lock = dir[k].lock /\ dir'[k].kept = dir[k].kept
    BY <2>1, <2>2 DEF Directory
  <2>4. \A k \in Instances : k # i => put'[k] = put[k] /\ jobs'[k] = jobs[k]
    BY <2>1, <2>2
  <2>5. \A k \in Instances : Locks(k)'
    <3> TAKE k \in Instances
    <3>1. CASE k = i
      BY ZenonT(60), <2>1, <2>3, <3>1, LookedT DEF LocksI, Locks, Opened, Adopts, Serving, Mine
    <3>2. CASE k # i
      <4>1. put'[k] = put[k] /\ jobs'[k] = jobs[k] /\ UNCHANGED <<srv, look, read, stream>>
        BY <2>1, <2>4, <3>2
      <4> QED
        BY <2>3, <4>1, LookedT DEF LocksI, Locks, Opened, Adopts, Serving, Mine
    <3> QED
      BY <3>1, <3>2
  <2> QED
    BY <2>5 DEF LocksI
<1>38. CASE RefusePut(i)
  BY <1>38 DEF LocksI, RefusePut, Adopts, Idle, Locks, Mine, Opened, Reads, Serving, ToPut
<1>39. CASE PutWrite(i)
  BY <1>39 DEF LocksI, PutWrite, Adopts, Idle, Locks, Mine, Opened, Serving
<1>40. CASE PutRename(i)
  BY <1>40 DEF LocksI, PutRename, Adopts, Idle, Locks, Mine, Opened, Serving, Untemped, WholeFor
<1>41. CASE PutFails(i)
  BY <1>41 DEF LocksI, PutFails, Adopts, Idle, Locks, Mine, NoWrite, Opened, Serving, Untemped, WriteEnds
<1>42. CASE PutCommit(i)
  BY <1>42 DEF DiskStoreAssumption, TypeOK, LocksI, PutCommit, Adopts, Idle, Locks, Mine, NoWrite, Opened, Serving, Write, WriteEnds
<1>43. CASE PutCancelled(i)
  BY <1>43 DEF DiskStoreAssumption, LocksI, PutCancelled, Adopts, Idle, Locks, Mine, NoFile, NoWrite, Opened, Removed, Serving, WriteEnds
<1>44. CASE IdleSweep(i)
  BY <1>44 DEF LocksI, IdleSweep, Adopts, Begins, Directories, Idle, Locks, Mine, Opened, Serving, files, io
<1>45. CASE Stop(i)
  BY <1>45 DEF LocksI, Stop, Adopts, Goes, Locks, Mine, Opened, Serving
<1>46. CASE Leave(i)
  BY SMTT(60), <1>46 DEF DiskStoreAssumption, TypeOK, LocksI, Leave, Adopts, Directory, Goes, Idle, Locks, Look, Memory, Mine, NoLook, NoRead, NoStream,
     NoWrite, Opened, Read, Server, Serving, Stream, Write
<1>47. CASE RemoveOwn(i)
  BY <1>47 DEF DiskStoreAssumption, LocksI, RemoveOwn, Adopts, Goes, Locks, Mine, NoDirectory, NoFiles, Opened, RemovedAll, Serving, Unmarked, io
<1>48. CASE Kill(i)
  <2>1. /\ dir \in [Instances -> Directory] /\ srv \in [Instances -> Server]
        /\ dir' = [d \in Instances |-> [dir[d] EXCEPT !.lock = IF @ \in {i} THEN Nobody ELSE @]]
        /\ srv' = [srv EXCEPT ![i].pc = "ended"]
    BY <1>48 DEF Kill, Unlocked, Goes, TypeOK
  <2>2. \A k \in Instances : (dir[k].lock # i => dir'[k].lock = dir[k].lock) /\ dir'[k].kept = dir[k].kept
    BY <2>1 DEF Directory
  <2>3. \A k \in Instances : k # i => /\ srv'[k] = srv[k] /\ look'[k] = look[k]
                                      /\ jobs'[k] = jobs[k] /\ put'[k] = put[k] /\ read'[k] = read[k] /\ stream'[k] = stream[k]
    BY <1>48, <2>1 DEF Kill, Memory
  <2>4. srv'[i].pc = "ended" /\ look'[i] = NoLook /\ jobs'[i] = <<>> /\ put'[i] = NoWrite /\ read'[i] = NoRead /\ stream'[i] = NoStream
    BY <1>48, <2>1 DEF Kill, Memory, Server
  <2>5. \A k \in Instances : Locks(k)'
    <3> TAKE k \in Instances
    <3>1. CASE k = i
      BY <2>2, <2>4, <3>1 DEF LocksI, Locks, Opened, Adopts, Serving, NoLook, NoRead, NoWrite, NoStream
    <3>2. CASE k # i
      BY SMTT(60), <2>2, <2>3, <3>2, LookedT DEF LocksI, Locks, Opened, Adopts, Serving, Mine
    <3> QED
      BY <3>1, <3>2
  <2> QED
    BY <2>5 DEF LocksI
<1> QED
  BY <1>1, <1>2, <1>3, <1>4, <1>5, <1>6, <1>7, <1>8, <1>9, <1>10, <1>11, <1>12, <1>13, <1>14, <1>15, <1>16, <1>17, <1>18, <1>19, <1>20, <1>21,
     <1>22, <1>23, <1>24, <1>25, <1>26, <1>27, <1>28, <1>29, <1>30, <1>31, <1>32, <1>33, <1>34, <1>35, <1>36, <1>37, <1>38, <1>39, <1>40, <1>41,
     <1>42, <1>43, <1>44, <1>45, <1>46, <1>47, <1>48 DEF Acts, Start, Sweep, Call, ReadIO, ClaimSettle, PutIO, End

LEMMA EmptySame == ASSUME EmptyI, UNCHANGED <<dir, srv, look, kv, from, disk, sizes, foreign>> PROVE EmptyI'
  BY DEF EmptyI, Empty, Has, Fresh
\* A directory that is new or gone stays empty.
LEMMA EmptyKept ==
  ASSUME DiskStoreAssumption, TypeOK, LocksI, EmptyI, ClaimingI, NEW i \in Instances, Acts(i)
  PROVE  EmptyI'
<1>1. CASE MakeDirectory(i)
  BY <1>1 DEF EmptyI, MakeDirectory, Empty, Fresh, Has, files, ghosts, io, store
<1>2. CASE TakeLock(i)
  BY <1>2 DEF EmptyI, TakeLock, Empty, Fresh, Goes, Has, files, ghosts, io, store
<1>3. CASE LockRefused(i)
  BY <1>3 DEF EmptyI, LockRefused, Empty, Fresh, Goes, Has, files, ghosts, io, store
<1>4. CASE KeepIdentity(i)
  BY <1>4 DEF TypeOK, EmptyI, KeepIdentity, Begins, Directories, Empty, Fresh, Has, files, ghosts, io, store
<1>5. ASSUME NEW d \in Instances, SweepNext(i, d) PROVE EmptyI'
  BY <1>5 DEF EmptyI, SweepNext, Adopts, Empty, Files, Fresh, Has, SweepsOn, files, ghosts, io, store
<1>6. ASSUME NEW d \in Instances, SweepPasses(i, d) PROVE EmptyI'
  BY <1>6 DEF EmptyI, SweepPasses, Empty, Fresh, Has, SweepsOn, files, ghosts, io, store
<1>7. CASE SweepEnd(i)
  BY <1>7 DEF TypeOK, EmptyI, SweepEnd, Empty, Fresh, Goes, Has, files, ghosts, io, store
<1>8. ASSUME NEW e \in Entries, AdoptLeaves(i, e) PROVE EmptyI'
  BY <1>8 DEF DiskStoreAssumption, EmptyI, AdoptLeaves, Empty, Fresh, Has, Looks, Marked, Owner, Passes, Wrote, files, ghosts, io, store
<1>9. ASSUME NEW e \in Entries, AdoptPasses(i, e) PROVE EmptyI'
  <2> SUFFICES ASSUME NEW c \in Instances, NEW g \in Entries PROVE Empty(c, g)'
    BY DEF EmptyI
  <2> DEFINE d == look[i].at
  <2>1. Empty(c, g)
    BY DEF EmptyI
  <2>2. UNCHANGED <<dir, from, srv, sizes, foreign>> /\ Readable(d, e) /\ (Fresh(c)' <=> Fresh(c))
    BY ZenonT(60), <1>9, AdoptPassesE DEF Fresh
  <2>3. CASE c = d /\ g = e
    <3>1. kv'[c][g] = Standing(d, e) /\ disk'[c][g] = IF kv[c][g] # Standing(d, e) THEN Standing(d, e) ELSE disk[c][g]
      BY <1>9, <2>3, AdoptPassesE
    <3>2. CASE Marked(d, e)
      <4>1. Standing(d, e) # NoFile
        BY <2>2, <3>2, WholeIsFile DEF Readable, Standing
      <4> QED
        BY <2>1, <2>2, <2>3, <3>1, <3>2, <4>1 DEF Empty, Has, Marked
    <3>3. CASE ~Marked(d, e)
      BY <2>1, <2>2, <2>3, <3>1, <3>3 DEF Empty, Has, Standing
    <3> QED
      BY <3>2, <3>3
  <2>4. CASE ~(c = d /\ g = e)
    <3>1. kv'[c][g] = kv[c][g] /\ disk'[c][g] = disk[c][g]
      BY <1>9, <2>4, AdoptPassesE
    <3> QED
      BY <2>1, <2>2, <3>1 DEF Empty, Has
  <2> QED
    BY <2>3, <2>4
<1>10. ASSUME NEW e \in Entries, AdoptTakes(i, e) PROVE EmptyI'
  <2> SUFFICES ASSUME NEW c \in Instances, NEW g \in Entries PROVE Empty(c, g)'
    BY DEF EmptyI
  <2> DEFINE d == look[i].at  as == TakenAs(i, d, e)
  <2>1. Empty(c, g) /\ Empty(d, e)
    BY <1>10, AdoptTakesE DEF EmptyI
  <2>2. /\ UNCHANGED <<dir, srv, sizes, foreign>> /\ (Fresh(c)' <=> Fresh(c)) /\ d \in Instances /\ ~Fresh(i) /\ d # i
        /\ Readable(d, e) /\ Standing(d, e) = WholeFor(as) /\ (as = Mine(i) \/ dir[i].there)
    <3>1. look[i].at # Nobody
      BY <1>10 DEF AdoptTakes, Looks
    <3> QED
      BY <1>10, <3>1, AdoptTakesE DEF Fresh, LocksI, Locks, Opened
  <2>3. as # NoBuild /\ WholeFor(as) # NoFile
    <3>1. as # NoBuild
      BY MineT DEF TakenAs, DiskStoreAssumption
    <3> QED
      BY <3>1, WholeIsFile
  <2>4. kv[d][e] = NoFile => Marked(d, e)
    BY <2>2, <2>3 DEF Standing
  <2> HIDE DEF as
  <2>5. /\ kv'[c][g] = IF c = d /\ g = e THEN WholeFor(as) ELSE kv[c][g]
        /\ (c = d /\ g = e) \/ disk'[c][g] = disk[c][g]
        /\ from'[c][g] = IF c = i /\ g = e /\ as # Mine(i) THEN as ELSE from[c][g]
    <3>1. d \in Instances
      BY <2>2
    <3> QED
      BY <1>10, <3>1, AdoptTakesF DEF as
  <2>6. CASE c = d /\ g = e
    BY <2>1, <2>2, <2>3, <2>4, <2>5, <2>6 DEF Empty, Has, Marked
  <2>7. CASE ~(c = d /\ g = e)
    BY <2>1, <2>2, <2>5, <2>7 DEF Empty, Has
  <2> QED
    BY <2>6, <2>7
<1>11. CASE AdoptMove(i)
  <2> SUFFICES ASSUME NEW c \in Instances, NEW g \in Entries PROVE Empty(c, g)'
    BY DEF EmptyI
  <2> DEFINE d == look[i].at  e == look[i].mv
  <2>1. Empty(c, g) /\ d \in Instances /\ e \in Entries
    BY <1>11, AdoptMoveE DEF EmptyI
  <2>2. /\ UNCHANGED <<dir, from, srv>> /\ look[i].sweep # "no" /\ (\A k \in Instances : look'[k].sweep = look[k].sweep)
        /\ Opened(i) /\ d # i /\ dir[i].there /\ kv[d][e] # NoFile
    <3>1. look[i].at # Nobody
      BY <1>11 DEF AdoptMove
    <3>2. UNCHANGED <<dir, from, srv>> /\ (\A k \in Instances : look'[k].sweep = look[k].sweep) /\ dir[i].there /\ kv[d][e] # NoFile
      BY ZenonT(60), <1>11, AdoptMoveE
    <3>3. look[i].sweep # "no" /\ Opened(i) /\ d # i
      BY <3>1 DEF LocksI, Locks
    <3> QED
      BY <3>2, <3>3
  <2>3. /\ kv'[c][g] = IF c = d /\ g = e THEN NoFile ELSE IF c = i /\ g = e THEN kv[d][e] ELSE kv[c][g]
        /\ disk'[c][g] = IF c = d /\ g = e THEN NoFile ELSE IF c = i /\ g = e THEN disk[d][e] ELSE disk[c][g]
        /\ g \in sizes'[c] <=> g \in sizes[c] \/ (c = i /\ g = e)
        /\ c # i => foreign'[c][g] = foreign[c][g]
    BY <1>11, AdoptMoveF
  <2> QED
    BY <2>1, <2>2, <2>3 DEF Empty, Has, Fresh, Opened
<1>12. CASE AdoptMoveFails(i)
  BY <1>12 DEF EmptyI, AdoptMoveFails, Empty, Fresh, Has, ghosts, store
<1>13. CASE AdoptBeside(i)
  BY <1>13 DEF EmptyI, AdoptBeside, Empty, Fresh, Has, ghosts, store
<1>14. CASE SweepLeave(i)
  BY <1>14 DEF EmptyI, SweepLeave, Adopts, Empty, Fresh, Has, LookEnded, NoLook, Spared, SweepDone, files, ghosts, io, store
<1>15. CASE SweepCondemn(i)
  BY <1>15 DEF DiskStoreAssumption, TypeOK, EmptyI, SweepCondemn, Adopts, Empty, Fresh, Has, LookEnded, NoLook, Spared, SweepDone, files, ghosts,
     io, store
<1>16. CASE SweepRemove(i)
  BY <1>16 DEF TypeOK, EmptyI, SweepRemove, Empty, Fresh, Has, LookEnded, NoDirectory, NoFiles, NoLook, RemovedAll, Unmarked, ghosts, store
<1>17. ASSUME NEW e \in Entries, Evict(i, e) PROVE EmptyI'
  BY <1>17 DEF TypeOK, EmptyI, Evict, Cancelled, Empty, Forgotten, Fresh, Has, IsPut, Removed
<1>18. CASE OpenBad(i)
  BY <1>18 DEF TypeOK, EmptyI, OpenBad, Empty, Forgotten, Fresh, Has, NoStream, OpenEnds, Removed, Serving
<1>19. CASE ReadBad(i)
  BY <1>19 DEF TypeOK, EmptyI, ReadBad, Dropped, Empty, Forgotten, Fresh, Has, NoRead, ReadEnds, Removed, Serving
<1>20. CASE RewriteField(i)
  <2> SUFFICES ASSUME NEW c \in Instances, NEW g \in Entries PROVE Empty(c, g)'
    BY DEF EmptyI
  <2> DEFINE e == read[i].job.e
  <2>1. Empty(c, g) /\ e \in Entries /\ read[i].at = "field" /\ UNCHANGED <<dir, from, disk, srv, look, sizes, foreign>>
    BY <1>20, RewriteFieldE DEF EmptyI
  <2>2. kv[i][e] # NoFile
    <3>1. kv[i][e].f = read[i].theirs
      BY <1>20, RewriteFieldE
    <3>2. read[i].theirs # NoBuild
      BY <2>1 DEF ClaimingI, Claiming
    <3> QED
      BY <3>1, <3>2 DEF NoFile
  <2>3. kv'[c][g] = IF c = i /\ g = e THEN [f |-> Mine(i), s |-> kv[i][e].s] ELSE kv[c][g]
    BY <1>20, RewriteFieldE
  <2>4. [f |-> Mine(i), s |-> kv[i][e].s] # NoFile
    <3>1. Mine(i) # NoBuild
      BY MineT DEF DiskStoreAssumption
    <3> QED
      BY <3>1 DEF NoFile
  <2> QED
    BY <2>1, <2>2, <2>3, <2>4 DEF Empty, Has, Fresh
<1>21. CASE RewriteSum(i)
  <2> SUFFICES ASSUME NEW c \in Instances, NEW g \in Entries PROVE Empty(c, g)'
    BY DEF EmptyI
  <2> DEFINE e == read[i].job.e
  <2>1. Empty(c, g) /\ UNCHANGED <<dir, from, disk, srv, look, sizes, foreign>>
    BY <1>21, RewriteSumE DEF EmptyI
  <2>2. kv'[c][g] = IF c = i /\ g = e /\ kv[c][g] # NoFile THEN WholeFor(Mine(i)) ELSE kv[c][g]
    BY <1>21, RewriteSumE
  <2>3. WholeFor(Mine(i)) # NoFile
    BY MineT, WholeIsFile DEF DiskStoreAssumption
  <2> QED
    BY <2>1, <2>2, <2>3 DEF Empty, Has, Fresh
<1>22. CASE RewriteSync(i)
  BY <1>22 DEF EmptyI, RewriteSync, Empty, Fresh, Has, ReadAt, Rewriting, Serving, ghosts, store
<1>23. CASE RewriteBeside(i)
  BY <1>23 DEF EmptyI, RewriteBeside, Empty, Fresh, Has, NoRead, ReadEnds, Rewriting, Serving
<1>24. CASE ClaimLost(i)
  BY SMTT(60), <1>24 DEF DiskStoreAssumption, TypeOK, EmptyI, ClaimLost, ClaimedBy, Dropped, Empty, Forgotten, Fresh, Has, Locks, LocksI, Mine, NoFile,
     NoRead, Opened, Owner, Read, ReadEnds, Removed, Rewriting, Serving, ghosts
<1>25. CASE ClaimKept(i)
  <2> SUFFICES ASSUME NEW c \in Instances, NEW g \in Entries PROVE Empty(c, g)'
    BY DEF EmptyI
  <2>1. Empty(c, g) /\ Empty(i, g)
    BY DEF EmptyI
  <2>2. WholeFor(ClaimedBy(i)) # NoFile
    BY <1>25, ClaimKeptE, WholeIsFile
  <2> DEFINE e == read[i].job.e
  <2>3. UNCHANGED <<dir, from, srv, look, sizes>> /\ Serving(i)
    BY <1>25, ClaimKeptE
  <2>4. CASE c = i /\ g = e
    <3>1. kv'[c][g] # NoFile /\ foreign'[c][g] \in {NoBuild, foreign[c][g]} /\ kv[c][g] # NoFile
      BY <1>25, <2>2, <2>4, ClaimKeptE
    <3> QED
      BY <2>1, <2>3, <2>4, <3>1 DEF Empty, Has, Fresh, Serving
  <2>5. CASE ~(c = i /\ g = e)
    <3>1. kv'[c][g] = kv[c][g] /\ foreign'[c][g] = foreign[c][g] /\ disk'[c][g] = disk[c][g]
      BY <1>25, <2>5, ClaimKeptE
    <3> QED
      BY <2>1, <2>3, <3>1 DEF Empty, Has, Fresh
  <2> QED
    BY <2>4, <2>5
<1>26. CASE TakePut(i)
  BY SMTT(60), <1>26, TakePutE DEF EmptyI, Empty, Has, Fresh, NoFile, NoFiles, Unmarked, Locks, LocksI, Opened, Serving, Mine, WholeFor, NoFile
<1>27. CASE PutRename(i)
  <2> SUFFICES ASSUME NEW c \in Instances, NEW g \in Entries PROVE Empty(c, g)'
    BY DEF EmptyI
  <2>1. Empty(c, g)
    BY DEF EmptyI
  <2>2. WholeFor(Mine(i)) # NoFile
    BY MineT, WholeIsFile DEF DiskStoreAssumption
  <2>3. UNCHANGED <<from, srv, look, sizes, foreign, disk>> /\ Serving(i) /\ dir'[c].there = dir[c].there /\ dir'[c].id = dir[c].id /\ dir[i].there
    BY <1>27, PutRenameE
  <2>4. kv'[c][g] = IF c = i /\ g = put[i].job.e THEN WholeFor(Mine(i)) ELSE kv[c][g]
    BY <1>27, PutRenameE
  <2> QED
    BY <2>1, <2>2, <2>3, <2>4 DEF Empty, Has, Fresh, Serving
<1>28. CASE PutFails(i)
  BY <1>28 DEF EmptyI, PutFails, Empty, Fresh, Has, Idle, NoWrite, Serving, Untemped, WriteEnds, files, ghosts, store
<1>29. CASE PutCommit(i)
  BY <1>29 DEF EmptyI, PutCommit, Empty, Fresh, Has, Idle, NoWrite, Serving, WriteEnds
<1>30. CASE PutCancelled(i)
  BY <1>30 DEF TypeOK, EmptyI, PutCancelled, Empty, Fresh, Has, Idle, NoWrite, Removed, Serving, WriteEnds, ghosts, store
<1>31. CASE IdleSweep(i)
  BY <1>31 DEF EmptyI, IdleSweep, Begins, Directories, Empty, Fresh, Has, Idle, Serving, files, ghosts, io, store
<1>32. CASE Stop(i)
  BY <1>32 DEF EmptyI, Stop, Empty, Fresh, Goes, Has, files, ghosts, store
<1>33. CASE Leave(i)
  BY <1>33 DEF EmptyI, Leave, Empty, Fresh, Goes, Has, Idle, Memory, NoLook, NoRead, NoStream, NoWrite, Serving, Unmarked, files
<1>34. CASE RemoveOwn(i)
  BY <1>34 DEF TypeOK, EmptyI, RemoveOwn, Empty, Fresh, Goes, Has, NoDirectory, NoFiles, RemovedAll, Unmarked, ghosts, store
<1>35. CASE Kill(i)
  BY SMTT(60), <1>35, KillE DEF EmptyI, Empty, Has, Fresh, NoFile, NoFiles, Unmarked, Locks, LocksI, Opened, Serving, Mine, WholeFor, NoWrite, NoRead,
     NoStream, NoLook
<1>36. CASE OpenWhole(i) \/ (\E e \in Entries : Put(i, e) \/ Get(i, e) \/ Claim(i, e) \/ Cancel(i, e) \/ OpenEntry(i, e))
  <2>1. UNCHANGED <<dir, srv, look, kv, from, disk, sizes, foreign>>
    BY <1>36 DEF Put, Get, Claim, Cancel, OpenEntry, OpenWhole, files, store
  <2> QED
    BY <2>1, EmptySame
<1>37. CASE TakeRead(i) \/ ReadWhole(i) \/ ClaimBegins(i) \/ RewriteFails(i) \/ SettleFails(i) \/ RefusePut(i)
  <2>1. UNCHANGED <<dir, srv, look, kv, from, disk, sizes, foreign>>
    BY <1>37 DEF TakeRead, ReadWhole, ClaimBegins, RewriteFails, SettleFails, RefusePut, files, store
  <2> QED
    BY <2>1, EmptySame
<1>38. CASE PutWrite(i)
  <2>1. UNCHANGED <<dir, srv, look, kv, from, disk, sizes, foreign>>
    BY <1>38 DEF PutWrite, files, store
  <2> QED
    BY <2>1, EmptySame
<1> QED
  BY <1>1, <1>2, <1>3, <1>4, <1>5, <1>6, <1>7, <1>8, <1>9, <1>10, <1>11, <1>12, <1>13, <1>14, <1>15, <1>16, <1>17, <1>18, <1>19, <1>20, <1>21,
     <1>22, <1>23, <1>24, <1>25, <1>26, <1>27, <1>28, <1>29, <1>30, <1>31, <1>32, <1>33, <1>34, <1>35, <1>36, <1>37, <1>38 DEF Acts, Start, Sweep,
     Call, ReadIO, ClaimSettle, PutIO, End

LEMMA PutSame == ASSUME PutI, UNCHANGED <<sizes, read, stream, jobs, put, proved, srv>> PROVE PutI'
  BY DEF PutI, OnePut, Queues, Writes, Touches, Puts, Mine
\* One write of an entry at a time, and no other work beside it.
LEMMA PutKept ==
  ASSUME DiskStoreAssumption, TypeOK, LocksI, PutI, OnceI, ProvedI, NEW i \in Instances, Acts(i)
  PROVE  PutI'
<1>1. CASE MakeDirectory(i)
  <2> SUFFICES ASSUME NEW k \in Instances, NEW e \in Entries PROVE OnePut(k, e)'
    BY DEF PutI
  <2>1. OnePut(k, e) /\ UNCHANGED <<sizes, jobs, put, read, stream, proved>> /\ (k # i => Mine(k)' = Mine(k))
    BY <1>1, MakeDirectoryE DEF PutI, Mine
  <2>2. ~Puts(i, e)
    BY <1>1, MakeDirectoryE DEF LocksI, Locks, Serving, Puts
  <2> QED
    BY <2>1, <2>2 DEF OnePut, Puts, Queues, Writes, Touches
<1>2. CASE TakeLock(i)
  BY <1>2 DEF PutI, TakeLock, Goes, IsPut, Mine, OnePut, Puts, Queues, Touches, Writes, files, ghosts, io, store
<1>3. CASE LockRefused(i)
  BY <1>3 DEF PutI, LockRefused, Goes, IsPut, Mine, OnePut, Puts, Queues, Touches, Writes, files, ghosts, io, store
<1>4. CASE SweepEnd(i)
  BY <1>4 DEF PutI, SweepEnd, Goes, IsPut, Mine, OnePut, Puts, Queues, Touches, Writes, files, ghosts, io, store
<1>5. CASE AdoptMove(i)
  <2> SUFFICES ASSUME NEW k \in Instances, NEW g \in Entries PROVE OnePut(k, g)'
    BY DEF PutI
  <2> DEFINE d == look[i].at  e == look[i].mv
  <2>1. OnePut(k, g) /\ UNCHANGED <<srv, jobs, put, read, stream, proved>> /\ d \in Instances /\ e \in Entries /\ Has(d, e)
    BY <1>5, AdoptMoveE DEF PutI, Has
  <2>2. d # i
    BY <1>5 DEF AdoptMove, LocksI, Locks
  <2>3. proved[e] # {}
    BY <2>1 DEF ProvedI, Proved
  <2>4. ~Puts(i, e)
    BY <2>1, <2>2 DEF OnceI, Once
  <2>5. g \in sizes'[k] <=> g \in sizes[k] \/ (k = i /\ g = e)
    BY <1>5, AdoptMoveF
  <2>6. Touches(k, g)' => Touches(k, g) \/ (k = i /\ g = e)
    BY <2>1, <2>5 DEF Touches
  <2>7. (Puts(k, g)' <=> Puts(k, g)) /\ (Queues(k, g)' <=> Queues(k, g)) /\ (Writes(k, g)' <=> Writes(k, g))
    BY <2>1 DEF Puts, Queues, Writes
  <2> QED
    BY <2>1, <2>3, <2>4, <2>6, <2>7 DEF OnePut, Mine
<1>6. ASSUME NEW e \in Entries, Put(i, e) PROVE PutI'
  BY SMTT(60), <1>6 DEF DiskStoreAssumption, TypeOK, PutI, Put, Calling, IsPut, Locks, LocksI, Mine, OnePut, Opened, Puts, Queued, Queues, Serving, Touches,
     Writes, files, store
<1>7. ASSUME NEW e \in Entries, Get(i, e) PROVE PutI'
  BY <1>7 DEF DiskStoreAssumption, TypeOK, PutI, Get, Calling, IsPut, Locks, LocksI, Mine, OnePut, Opened, Puts, Queued, Queues, Serving, Touches,
     Writes, files, ghosts, store
<1>8. ASSUME NEW e \in Entries, Claim(i, e) PROVE PutI'
  BY SMTT(60), <1>8 DEF DiskStoreAssumption, PutI, Claim, Calling, IsPut, Mine, OnePut, Puts, Queued, Queues, Touches, Writes
<1>9. ASSUME NEW e \in Entries, Cancel(i, e) PROVE PutI'
  <2> SUFFICES ASSUME NEW k \in Instances, NEW g \in Entries PROVE OnePut(k, g)'
    BY DEF PutI
  <2>1. OnePut(k, g) /\ SameWork(k) /\ UNCHANGED <<sizes, read, stream, proved>> /\ Mine(k)' = Mine(k)
    BY <1>9, WorkE DEF PutI, Mine, Cancel, store
  <2> QED
    BY ZenonT(60), <2>1, SameWorkE DEF OnePut, Touches, SameWork, IsPut
<1>10. ASSUME NEW e \in Entries, Evict(i, e) PROVE PutI'
  <2> SUFFICES ASSUME NEW k \in Instances, NEW g \in Entries PROVE OnePut(k, g)'
    BY DEF PutI
  <2>1. OnePut(k, g) /\ SameWork(k) /\ UNCHANGED <<read, stream, proved>> /\ Mine(k)' = Mine(k)
    BY <1>10, WorkE DEF PutI, Mine
  <2>2. g \in sizes'[k] => g \in sizes[k]
    BY <1>10, EvictE, DropsE
  <2> QED
    BY ZenonT(60), <2>1, <2>2, SameWorkE DEF OnePut, Touches, SameWork, IsPut
<1>11. ASSUME NEW e \in Entries, OpenEntry(i, e) PROVE PutI'
  BY <1>11 DEF PutI, OpenEntry, IsPut, Mine, OnePut, Puts, Queues, Touches, Writes, WrittenAs, files, ghosts, io, store
<1>12. CASE OpenWhole(i)
  BY <1>12 DEF PutI, OpenWhole, IsPut, Mine, NoStream, OnePut, OpenEnds, Puts, Queues, Serving, Touches, WholeFor, Writes, files, ghosts, io, store
<1>13. CASE OpenBad(i)
  BY <1>13 DEF PutI, OpenBad, Forgotten, IsPut, Locks, LocksI, Mine, NoFile, NoStream, OnePut, OpenEnds, Opened, Puts, Queues, Removed, Serving,
     Touches, WholeFor, Writes, ghosts, io
<1>14. CASE TakeRead(i)
  <2> SUFFICES ASSUME NEW k \in Instances, NEW g \in Entries PROVE OnePut(k, g)'
    BY DEF PutI
  <2>1. OnePut(k, g) /\ UNCHANGED <<srv, sizes, put, stream, proved>>
    BY <1>14, TakeReadE DEF PutI
  <2>2. CASE k # i
    <3>1. read'[k] = read[k] /\ jobs'[k] = jobs[k]
      BY <1>14, <2>2, TakeReadE
    <3> QED
      BY <2>1, <3>1 DEF OnePut, Puts, Queues, Writes, Touches, Mine
  <2>3. CASE k = i
    <3> DEFINE f == FirstRead(i)
    <3>1. f \in Nat /\ DOMAIN jobs'[i] \subseteq Nat
      BY <1>14, TakeReadW
    <3> HIDE DEF f
    <3>2. \A n \in DOMAIN jobs'[i] : \E m \in DOMAIN jobs[i] : jobs'[i][n] = jobs[i][m] /\ m = IF n < f THEN n ELSE n + 1
      BY <1>14, TakeReadW DEF f
    <3>3. ASSUME NEW m \in DOMAIN jobs'[i], NEW n \in DOMAIN jobs'[i], IsPut(jobs'[i][m], g), IsPut(jobs'[i][n], g) PROVE m = n
      <4>1. PICK a \in DOMAIN jobs[i] : jobs'[i][m] = jobs[i][a] /\ a = IF m < f THEN m ELSE m + 1
        BY <3>2
      <4>2. PICK b \in DOMAIN jobs[i] : jobs'[i][n] = jobs[i][b] /\ b = IF n < f THEN n ELSE n + 1
        BY <3>2
      <4>3. a = b
        BY <2>1, <2>3, <3>3, <4>1, <4>2 DEF OnePut
      <4>4. m \in Nat /\ n \in Nat
        BY <3>1
      <4> QED
        BY <3>1, <4>1, <4>2, <4>3, <4>4
    <3>4. Queues(k, g)' => Queues(k, g)
      BY <2>3, <3>2 DEF Queues
    <3>5. (Writes(k, g)' <=> Writes(k, g)) /\ (Puts(k, g)' => Puts(k, g))
      BY <2>1, <3>4 DEF Writes, Puts, Queues
    <3>6. Touches(k, g)' => Touches(k, g)
      BY <1>14, <2>1, <2>3, TakeReadE DEF Touches
    <3> QED
      BY <2>1, <2>3, <3>3, <3>4, <3>5, <3>6 DEF OnePut, Mine, IsPut
  <2> QED
    BY <2>2, <2>3
<1>15. CASE ReadBad(i)
  BY <1>15 DEF PutI, ReadBad, Dropped, Forgotten, IsPut, Mine, NoFile, NoJob, NoRead, OnePut, Puts, Queues, ReadEnds, Removed, Serving, Touches,
     Writes, ghosts
<1>16. CASE ReadWhole(i)
  BY SMTT(60), <1>16 DEF DiskStoreAssumption, TypeOK, PutI, ReadWhole, Checked, IsPut, Locks, LocksI, Mine, NoJob, NoRead, OnePut, Opened, Puts, Queues, Read,
     ReadEnds, Serving, ToClaim, Touches, WholeFor, Writes, WrittenAs, files, ghosts, store
<1>17. CASE ClaimBegins(i)
  BY <1>17 DEF DiskStoreAssumption, PutI, ClaimBegins, Checked, IsPut, Mine, OnePut, Puts, Queues, Serving, ToClaim, Touches, WholeFor, Writes,
     WrittenAs, files, ghosts, store
<1>18. CASE RewriteField(i)
  BY SMTT(60), <1>18 DEF DiskStoreAssumption, TypeOK, PutI, RewriteField, IsPut, Locks, LocksI, Mine, OnePut, Opened, Puts, Queues, ReadAt, Rewriting,
     Serving, Touches, Writes, ghosts, store
<1>19. CASE RewriteSum(i)
  BY <1>19, RewriteSumE DEF PutI, OnePut, Queues, Writes, Touches, Puts, IsPut, Mine, Serving, Locks, LocksI, Opened, NoJob, NoFile
<1>20. CASE RewriteSync(i)
  BY <1>20 DEF PutI, RewriteSync, IsPut, Mine, OnePut, Puts, Queues, ReadAt, Rewriting, Serving, Touches, Writes, ghosts, store
<1>21. CASE RewriteFails(i)
  BY <1>21 DEF PutI, RewriteFails, IsPut, Mine, OnePut, Puts, Queues, ReadAt, Serving, Touches, Writes, store
<1>22. CASE RewriteBeside(i)
  BY <1>22 DEF PutI, RewriteBeside, IsPut, Mine, NoJob, NoRead, OnePut, Puts, Queues, ReadEnds, Rewriting, Serving, Touches, Writes, ghosts
<1>23. CASE SettleFails(i)
  BY <1>23 DEF PutI, SettleFails, IsPut, Mine, NoJob, NoRead, OnePut, Puts, Queues, ReadEnds, Rewriting, Serving, Touches, Writes, ghosts, store
<1>24. CASE ClaimLost(i)
  BY SMTT(60), <1>24 DEF DiskStoreAssumption, TypeOK, PutI, ClaimLost, ClaimedBy, Dropped, Forgotten, IsPut, Locks, LocksI, Mine, NoFile, NoJob, NoRead,
     OnePut, Opened, Owner, Puts, Queues, Read, ReadEnds, Removed, Rewriting, Serving, Touches, Writes, ghosts
<1>25. CASE ClaimKept(i)
  BY <1>25, ClaimKeptE DEF PutI, OnePut, Queues, Writes, Touches, Puts, IsPut, Mine, Serving, Locks, LocksI, Opened, NoJob, NoWrite, NoRead,
     NoStream, NoLook
<1>26. CASE TakePut(i)
  <2> SUFFICES ASSUME NEW k \in Instances, NEW g \in Entries PROVE OnePut(k, g)'
    BY DEF PutI
  <2>1. OnePut(k, g) /\ UNCHANGED <<srv, sizes, read, stream, proved>>
    BY <1>26, TakePutE DEF PutI
  <2>2. CASE k # i
    <3>1. put'[k] = put[k] /\ jobs'[k] = jobs[k]
      BY <1>26, <2>2, TakePutE
    <3> QED
      BY <2>1, <3>1 DEF OnePut, Puts, Queues, Writes, Touches, Mine
  <2>3. CASE k = i
    <3>1. ASSUME NEW m \in DOMAIN jobs'[i], NEW n \in DOMAIN jobs'[i], IsPut(jobs'[i][m], g), IsPut(jobs'[i][n], g) PROVE m = n
      <4>1. /\ jobs[i] \in Seq(Job) /\ jobs'[i] \in Seq(Job) /\ Len(jobs'[i]) = Len(jobs[i]) - 1
            /\ \A x \in 1 .. Len(jobs[i]) - 1 : jobs'[i][x] = jobs[i][x + 1]
        BY <1>26, TakePutE
      <4>2. m + 1 \in DOMAIN jobs[i] /\ n + 1 \in DOMAIN jobs[i] /\ m \in Nat /\ n \in Nat /\ jobs'[i][m] = jobs[i][m + 1] /\ jobs'[i][n] = jobs[i][n + 1]
        <5>1. Len(jobs[i]) \in Nat /\ DOMAIN jobs[i] = 1 .. Len(jobs[i]) /\ DOMAIN jobs'[i] = 1 .. Len(jobs[i]) - 1
          BY <4>1
        <5>2. m \in 1 .. Len(jobs[i]) - 1 /\ n \in 1 .. Len(jobs[i]) - 1
          BY <5>1
        <5>3. m + 1 \in DOMAIN jobs[i] /\ n + 1 \in DOMAIN jobs[i] /\ m \in Nat /\ n \in Nat
          BY <5>1, <5>2
        <5>4. jobs'[i][m] = jobs[i][m + 1] /\ jobs'[i][n] = jobs[i][n + 1]
          BY <4>1, <5>2
        <5> QED
          BY <5>3, <5>4
      <4>3. m + 1 = n + 1
        BY <2>1, <2>3, <3>1, <4>2 DEF OnePut
      <4> QED
        BY <4>2, <4>3
    <3>2. Touches(k, g)' <=> Touches(k, g)
      BY <2>1 DEF Touches
    <3>3. (Writes(k, g)' => ~Queues(k, g)') /\ (Puts(k, g)' => Puts(k, g))
      BY <1>26, <2>3, TakePutW
    <3> QED
      BY <2>1, <2>3, <3>1, <3>2, <3>3 DEF OnePut, Mine, IsPut
  <2> QED
    BY <2>2, <2>3
<1>27. CASE RefusePut(i)
  BY SMTT(60), <1>27 DEF TypeOK, PutI, RefusePut, Idle, IsPut, Locks, LocksI, Mine, OnePut, Opened, Puts, Queues, Reads, Serving, ToPut, Touches, Writes,
     files, ghosts, store
<1>28. CASE PutWrite(i)
  BY <1>28 DEF PutI, PutWrite, Idle, IsPut, Mine, OnePut, Puts, Queues, Serving, Touches, Writes, ghosts, store
<1>29. CASE PutRename(i)
  BY <1>29, PutRenameE DEF PutI, OnePut, Queues, Writes, Touches, Puts, IsPut, Mine, Serving, Locks, LocksI, Opened, NoJob, NoFile
<1>30. CASE PutFails(i)
  BY <1>30 DEF PutI, PutFails, Idle, IsPut, Mine, NoJob, NoWrite, OnePut, Puts, Queues, Serving, Touches, Untemped, WriteEnds, Writes, ghosts, store
<1>31. CASE PutCommit(i)
  BY <1>31 DEF DiskStoreAssumption, TypeOK, PutI, PutCommit, Idle, IsPut, Locks, LocksI, Mine, NoJob, NoWrite, OnePut, Opened, Puts, Queues,
     Serving, Touches, WriteEnds, Writes, ghosts
<1>32. CASE PutCancelled(i)
  BY <1>32 DEF DiskStoreAssumption, PutI, PutCancelled, Idle, IsPut, Mine, NoFile, NoJob, NoWrite, OnePut, Puts, Queues, Removed, Serving, Touches,
     WriteEnds, Writes, ghosts, store
<1>33. CASE Stop(i)
  <2> SUFFICES ASSUME NEW k \in Instances, NEW e \in Entries PROVE OnePut(k, e)'
    BY DEF PutI
  <2>1. OnePut(k, e) /\ SameWork(k) /\ UNCHANGED <<sizes, read, stream, proved>> /\ Mine(k)' = Mine(k)
    BY <1>33, WorkE, StopE DEF PutI, Mine
  <2> QED
    BY ZenonT(60), <2>1, SameWorkE DEF OnePut, Touches, SameWork, IsPut
<1>34. CASE Leave(i)
  BY <1>34 DEF DiskStoreAssumption, PutI, Leave, Goes, Idle, IsPut, Memory, Mine, NoJob, NoLook, NoRead, NoStream, NoWrite, OnePut, Puts, Queues,
     Serving, Touches, Writes, ghosts
<1>35. CASE RemoveOwn(i)
  BY <1>35 DEF DiskStoreAssumption, PutI, RemoveOwn, Goes, IsPut, Mine, NoDirectory, NoFiles, OnePut, Puts, Queues, RemovedAll, Touches, Unmarked,
     Writes, ghosts, io, store
<1>36. CASE Kill(i)
  BY <1>36 DEF DiskStoreAssumption, PutI, Kill, Goes, IsPut, Live, Memory, Mine, NoJob, NoLook, NoRead, NoStream, NoWrite, OnePut, Puts, Queues,
     Touches, Unlocked, Writes
<1>37. CASE KeepIdentity(i) \/ (\E e \in Entries : AdoptLeaves(i, e) \/ AdoptPasses(i, e) \/ AdoptTakes(i, e)) \/ (\E d \in Instances : SweepNext(i, d) \/ SweepPasses(i, d))
  <2>1. UNCHANGED <<sizes, read, stream, jobs, put, proved, srv>>
    BY ZenonT(60), <1>37 DEF KeepIdentity, SweepNext, SweepPasses, AdoptLeaves, AdoptPasses, AdoptTakes, ghosts, io, store
  <2> QED
    BY <2>1, PutSame
<1>38. CASE AdoptMoveFails(i) \/ AdoptBeside(i) \/ SweepLeave(i) \/ SweepCondemn(i) \/ SweepRemove(i) \/ IdleSweep(i)
  <2>1. UNCHANGED <<sizes, read, stream, jobs, put, proved, srv>>
    BY <1>38 DEF AdoptMoveFails, AdoptBeside, SweepLeave, SweepCondemn, SweepRemove, IdleSweep, ghosts, io, store
  <2> QED
    BY <2>1, PutSame
<1> QED
  BY <1>1, <1>2, <1>3, <1>4, <1>5, <1>6, <1>7, <1>8, <1>9, <1>10, <1>11, <1>12, <1>13, <1>14, <1>15, <1>16, <1>17, <1>18, <1>19, <1>20, <1>21,
     <1>22, <1>23, <1>24, <1>25, <1>26, <1>27, <1>28, <1>29, <1>30, <1>31, <1>32, <1>33, <1>34, <1>35, <1>36, <1>37, <1>38 DEF Acts, Start, Sweep,
     Call, ReadIO, ClaimSettle, PutIO, End

LEMMA OnceSame == ASSUME OnceI, UNCHANGED <<kv, jobs, put>> PROVE OnceI'
  BY DEF OnceI, Once, Has, Puts, Renamed
\* One file of an entry among all the directories.
LEMMA OnceKept ==
  ASSUME DiskStoreAssumption, TypeOK, LocksI, PutI, OnceI, ProvedI, ClaimingI, NEW i \in Instances, Acts(i)
  PROVE  OnceI'
<1>1. ASSUME NEW e \in Entries, AdoptPasses(i, e) PROVE OnceI'
  <2> SUFFICES ASSUME NEW g \in Entries PROVE Once(g)'
    BY DEF OnceI
  <2> DEFINE d == look[i].at
  <2>0. UNCHANGED <<jobs, put>> /\ d \in Instances /\ Readable(d, e)
    BY <1>1, AdoptPassesE
  <2>1. \A c \in Instances : kv'[c][g] = IF c = d /\ g = e THEN Standing(d, e) ELSE kv[c][g]
    BY <1>1, AdoptPassesE
  <2>2. kv[d][e] = NoFile => Standing(d, e) = NoFile
    BY <2>0, StandingE
  <2>3. \A c \in Instances : Has(c, g)' => Has(c, g)
    BY <2>1, <2>2 DEF Has
  <2> QED
    BY <2>0, <2>3, OnceFrame, WorkFrame
<1>2. ASSUME NEW e \in Entries, AdoptTakes(i, e) PROVE OnceI'
  <2> SUFFICES ASSUME NEW g \in Entries PROVE Once(g)'
    BY DEF OnceI
  <2> DEFINE d == look[i].at
  <2>1. UNCHANGED <<jobs, put>> /\ d \in Instances
    BY <1>2, AdoptO
  <2>2. Readable(d, e) /\ Standing(d, e) = WholeFor(TakenAs(i, d, e))
    BY <1>2, AdoptTakesE
  <2>3. kv[d][e] = NoFile => Standing(d, e) = NoFile
    BY <2>1, <2>2, StandingE
  <2>4. ASSUME NEW c \in Instances, Has(c, g)' PROVE Has(c, g)
    <3>1. kv'[c][g] = IF c = d /\ g = e THEN Standing(d, e) ELSE kv[c][g]
      BY <1>2, <2>2, AdoptTakesF
    <3> QED
      BY <2>3, <2>4, <3>1 DEF Has
  <2> QED
    BY <2>1, <2>4, OnceFrame, WorkFrame
<1>3. CASE AdoptMove(i)
  <2> SUFFICES ASSUME NEW g \in Entries PROVE Once(g)'
    BY DEF OnceI
  <2> DEFINE d == look[i].at  e == look[i].mv
  <2>1. UNCHANGED <<jobs, put>> /\ d \in Instances /\ e \in Entries /\ Has(d, e)
    BY <1>3, AdoptMoveE DEF Has
  <2>5. \A c \in Instances : kv'[c][g] = IF c = d /\ g = e THEN NoFile ELSE IF c = i /\ g = e THEN kv[d][e] ELSE kv[c][g]
    BY <1>3, AdoptMoveF
  <2>2. d # i
    BY <1>3 DEF AdoptMove, LocksI, Locks
  <2>3. CASE g # e
    <3>1. \A c \in Instances : Has(c, g)' => Has(c, g)
      BY <2>1, <2>3, <2>5 DEF Has
    <3> QED
      BY <2>1, <3>1, OnceFrame, WorkFrame
  <2>4. CASE g = e
    <3>1. Once(e)
      BY <2>1 DEF OnceI
    <3>2. \A c \in Instances : Has(c, g)' => c = i
      <4> SUFFICES ASSUME NEW c \in Instances, Has(c, g)', c # i PROVE FALSE
        OBVIOUS
      <4>1. c # d /\ kv'[c][g] = kv[c][g]
        BY <2>4, <2>5 DEF Has
      <4>2. Has(c, e)
        BY <2>4, <4>1 DEF Has
      <4> QED
        BY <2>1, <3>1, <4>1, <4>2 DEF Once
    <3>3. ~Puts(d, e)
      <4>1. ~Opened(d)
        <5>1. look[i].phase = "move" /\ look[i].at # Nobody
          BY <1>3 DEF AdoptMove
        <5>2. dir[d].lock = i
          BY <5>1 DEF LocksI, Locks
        <5> QED
          BY <2>1, <2>2, <5>2 DEF LocksI, Locks
      <4> QED
        BY <2>1, <4>1 DEF LocksI, Locks, Opened, Serving, Puts
    <3>4. \A k \in Instances : ~Puts(k, g)'
      BY <2>1, <2>4, <3>1, <3>3 DEF Once, Puts
    <3> QED
      BY <3>2, <3>4 DEF Once
  <2> QED
    BY <2>3, <2>4
<1>4. CASE SweepRemove(i)
  BY <1>4 DEF DiskStoreAssumption, OnceI, SweepRemove, Has, IsPut, LookEnded, NoDirectory, NoFiles, NoLook, Once, Puts, RemovedAll, Renamed,
     Unmarked, io
<1>5. ASSUME NEW e \in Entries, Put(i, e) PROVE OnceI'
  <2> SUFFICES ASSUME NEW g \in Entries PROVE Once(g)'
    BY DEF OnceI
  <2>1. UNCHANGED <<kv, put>> /\ proved[e] = {} /\ (\A k \in Instances : k # i => jobs'[k] = jobs[k])
        /\ jobs[i] \in Seq(Job) /\ jobs'[i] = Append(jobs[i], [kind |-> "put", e |-> e, cancelled |-> FALSE])
    BY <1>5 DEF Put, Queued, files, TypeOK
  <2>2. \A n \in DOMAIN jobs'[i] : (n \in DOMAIN jobs[i] /\ jobs'[i][n] = jobs[i][n]) \/ jobs'[i][n].e = e
    BY <2>1
  <2>3. g # e => \A k \in Instances : (Puts(k, g)' => Puts(k, g)) /\ (Renamed(k, g) => Renamed(k, g)')
    BY ZenonT(60), <2>1, <2>2 DEF Puts, Renamed, IsPut
  <2>4. g = e => (\A k \in Instances : ~Puts(k, g) /\ ~Has(k, g))
    BY <2>1 DEF PutI, OnePut, ProvedI, Proved
  <2>5. \A k \in Instances : k # i => (Puts(k, g)' => Puts(k, g))
    BY <2>1 DEF Puts
  <2>6. CASE g # e
    BY <2>1, <2>3, <2>6, OnceFrame, FileFrame
  <2>7. CASE g = e
    <3>1. \A k \in Instances : ~Has(k, g)' /\ (Puts(k, g)' => k = i)
      BY <2>1, <2>4, <2>5, <2>7 DEF Has
    <3> QED
      BY <3>1 DEF Once
  <2> QED
    BY <2>6, <2>7
<1>6. ASSUME NEW e \in Entries, Get(i, e) PROVE OnceI'
  BY SMTT(60), <1>6 DEF TypeOK, OnceI, Get, Calling, Has, IsPut, Locks, LocksI, Once, Opened, Puts, Queued, Renamed, Serving, files
<1>7. ASSUME NEW e \in Entries, Claim(i, e) PROVE OnceI'
  BY <1>7 DEF OnceI, Claim, Calling, Has, IsPut, Once, Puts, Queued, Renamed, files
<1>8. ASSUME NEW e \in Entries, Cancel(i, e) PROVE OnceI'
  <2> SUFFICES ASSUME NEW g \in Entries PROVE Once(g)'
    BY DEF OnceI
  <2>1. UNCHANGED kv /\ (\A k \in Instances : SameWork(k))
    BY <1>8, WorkE DEF Cancel, files
  <2> QED
    BY <2>1, OnceFrame, FileFrame, SameWorkE
<1>9. ASSUME NEW e \in Entries, Evict(i, e) PROVE OnceI'
  <2> SUFFICES ASSUME NEW g \in Entries PROVE Once(g)'
    BY DEF OnceI
  <2>1. (\A c \in Instances : kv'[c][g] = NoFile \/ kv'[c][g] = kv[c][g]) /\ (\A k \in Instances : SameWork(k))
    BY <1>9, WorkE, EvictE, DropsE
  <2>2. \A c \in Instances : Has(c, g)' => Has(c, g)
    BY <2>1 DEF Has
  <2> QED
    BY <2>1, <2>2, OnceFrame, SameWorkE
<1>10. CASE OpenBad(i)
  BY <1>10 DEF OnceI, OpenBad, Forgotten, Has, IsPut, NoStream, Once, OpenEnds, Puts, Removed, Renamed, Serving, io
<1>11. CASE TakeRead(i)
  <2> SUFFICES ASSUME NEW g \in Entries PROVE Once(g)'
    BY DEF OnceI
  <2>1. UNCHANGED <<kv, put>> /\ (\A k \in Instances : k # i => jobs'[k] = jobs[k])
    BY <1>11, TakeReadE
  <2>2. \A n \in DOMAIN jobs'[i] : \E m \in DOMAIN jobs[i] : jobs'[i][n] = jobs[i][m]
    BY <1>11, TakeReadW
  <2>3. \A k \in Instances : (Puts(k, g)' => Puts(k, g)) /\ (Renamed(k, g) => Renamed(k, g)')
    BY <2>1, <2>2 DEF Puts, Renamed
  <2> QED
    BY <2>1, <2>3, OnceFrame, FileFrame
<1>12. CASE ReadBad(i)
  BY <1>12 DEF OnceI, ReadBad, Dropped, Forgotten, Has, IsPut, NoRead, Once, Puts, ReadEnds, Removed, Renamed, Serving
<1>13. CASE RewriteField(i)
  <2> SUFFICES ASSUME NEW g \in Entries PROVE Once(g)'
    BY DEF OnceI
  <2> DEFINE e == read[i].job.e
  <2>1. UNCHANGED <<jobs, put>> /\ read[i].at = "field" /\ (\A c \in Instances : kv'[c][g] = IF c = i /\ g = e THEN [f |-> Mine(i), s |-> kv[i][e].s] ELSE kv[c][g])
    BY <1>13, RewriteFieldE
  <2>2. kv[i][e] # NoFile
    <3>1. kv[i][e].f = read[i].theirs
      BY <1>13, RewriteFieldE
    <3>2. read[i].theirs # NoBuild
      BY ZenonT(60), <2>1 DEF ClaimingI, Claiming
    <3> QED
      BY <3>1, <3>2 DEF NoFile
  <2>3. \A c \in Instances : Has(c, g)' => Has(c, g)
    BY <2>1, <2>2 DEF Has
  <2> QED
    BY <2>1, <2>3, OnceFrame, WorkFrame
<1>14. CASE RewriteSum(i)
  BY SMTT(60), <1>14 DEF DiskStoreAssumption, TypeOK, OnceI, RewriteSum, Has, IsPut, Locks, LocksI, Once, Opened, Puts, Read, ReadAt, Renamed, Rewriting,
     Serving
<1>15. CASE ClaimLost(i)
  BY SMTT(60), <1>15 DEF DiskStoreAssumption, TypeOK, OnceI, ClaimLost, ClaimedBy, Dropped, Forgotten, Has, IsPut, Locks, LocksI, Mine, NoFile, NoRead, Once,
     Opened, Owner, Puts, Read, ReadEnds, Removed, Renamed, Rewriting, Serving, ghosts
<1>16. CASE ClaimKept(i)
  <2> SUFFICES ASSUME NEW g \in Entries PROVE Once(g)'
    BY DEF OnceI
  <2> DEFINE e == read[i].job.e
  <2>1. UNCHANGED <<jobs, put>> /\ kv[i][e] # NoFile /\ (\A c \in Instances : kv'[c][g] = IF c = i /\ g = e THEN WholeFor(ClaimedBy(i)) ELSE kv[c][g])
    BY <1>16, ClaimKeptE
  <2>2. \A c \in Instances : Has(c, g)' => Has(c, g)
    BY <2>1 DEF Has
  <2> QED
    BY <2>1, <2>2, OnceFrame, WorkFrame
<1>17. CASE TakePut(i)
  <2> SUFFICES ASSUME NEW g \in Entries PROVE Once(g)'
    BY DEF OnceI
  <2>1. UNCHANGED kv /\ (\A k \in Instances : k # i => jobs'[k] = jobs[k] /\ put'[k] = put[k])
    BY <1>17, TakePutE
  <2>2. (Puts(i, g)' => Puts(i, g)) /\ ~Renamed(i, g)
    BY <1>17, TakePutW
  <2>3. \A k \in Instances : (Puts(k, g)' => Puts(k, g)) /\ (Renamed(k, g) => Renamed(k, g)')
    BY <2>1, <2>2 DEF Puts, Renamed
  <2> QED
    BY <2>1, <2>3, OnceFrame, FileFrame
<1>18. CASE RefusePut(i)
  BY SMTT(60), <1>18 DEF DiskStoreAssumption, TypeOK, OnceI, RefusePut, Has, Idle, IsPut, Locks, LocksI, Once, Opened, Puts, Reads, Renamed, Serving, ToPut,
     files
<1>19. CASE PutWrite(i)
  BY <1>19 DEF OnceI, PutWrite, Has, Idle, IsPut, Once, Puts, Renamed, Serving, files
<1>20. CASE PutRename(i)
  <2> SUFFICES ASSUME NEW g \in Entries PROVE Once(g)'
    BY DEF OnceI
  <2> DEFINE e == put[i].job.e
  <2>1. /\ put[i].at = "synced" /\ put'[i].at = "renamed" /\ put'[i].job = put[i].job /\ jobs' = jobs
        /\ \A k \in Instances : k # i => put'[k] = put[k]
    BY <1>20, PutRenameE
  <2>2. \A c \in Instances : kv'[c][g] = IF c = i /\ g = e THEN WholeFor(Mine(i)) ELSE kv[c][g]
    BY <1>20, PutRenameE
  <2>3. \A k \in Instances : (Puts(k, g)' => Puts(k, g)) /\ (Renamed(k, g) => Renamed(k, g)')
    <3>1. ASSUME NEW k \in Instances, k = i PROVE (Puts(k, g)' => Puts(k, g)) /\ (Renamed(k, g) => Renamed(k, g)')
      BY <2>1, <3>1 DEF Puts, Renamed
    <3>2. ASSUME NEW k \in Instances, k # i PROVE (Puts(k, g)' => Puts(k, g)) /\ (Renamed(k, g) => Renamed(k, g)')
      BY <2>1, <3>2 DEF Puts, Renamed
    <3> QED
      BY <3>1, <3>2
  <2>4. CASE g # e
    <3>1. \A c \in Instances : Has(c, g)' => Has(c, g)
      BY <2>2, <2>4 DEF Has
    <3> QED
      BY <2>3, <3>1, OnceFrame
  <2>5. CASE g = e
    <3>1. Puts(i, g) /\ Renamed(i, g)'
      BY <2>1, <2>5 DEF Puts, Renamed
    <3>2. \A c \in Instances : Has(c, g) => c = i
      BY <3>1 DEF OnceI, Once
    <3>3. \A c \in Instances : Has(c, g)' => c = i
      BY <2>2, <3>2 DEF Has
    <3>4. \A k \in Instances : Puts(k, g)' => k = i
      BY <2>3, <3>1 DEF OnceI, Once
    <3> QED
      BY <3>1, <3>3, <3>4 DEF Once
  <2> QED
    BY <2>4, <2>5
<1>21. CASE PutFails(i)
  BY <1>21 DEF OnceI, PutFails, Has, Idle, IsPut, NoWrite, Once, Puts, Renamed, Serving, Untemped, WriteEnds, files
<1>22. CASE PutCommit(i)
  <2> SUFFICES ASSUME NEW g \in Entries PROVE Once(g)'
    BY DEF OnceI
  <2>1. UNCHANGED <<kv, jobs>> /\ (\A k \in Instances : put'[k] = IF k = i THEN NoWrite ELSE put[k])
    BY <1>22 DEF PutCommit, WriteEnds, TypeOK
  <2>2. \A k \in Instances : Puts(k, g)' => Puts(k, g) /\ (Renamed(k, g) => Renamed(k, g)')
    <3> SUFFICES ASSUME NEW k \in Instances, Puts(k, g)' PROVE Puts(k, g) /\ (Renamed(k, g) => Renamed(k, g)')
      OBVIOUS
    <3>1. Puts(k, g) /\ (k # i => put'[k] = put[k])
      BY <2>1 DEF Puts, NoWrite
    <3>2. k = i => Queues(i, g)
      BY <2>1 DEF Puts, NoWrite, Queues
    <3>3. k = i => ~Renamed(k, g)
      BY <3>2 DEF PutI, OnePut, Writes, Renamed
    <3> QED
      BY <3>1, <3>3 DEF Renamed
  <2> QED
    BY <2>1, <2>2, OnceFrame, FileFrame
<1>23. CASE PutCancelled(i)
  BY <1>23 DEF DiskStoreAssumption, TypeOK, OnceI, PutCancelled, Has, Idle, IsPut, Locks, LocksI, NoWrite, Once, Opened, Puts, Removed, Renamed,
     Serving, Write, WriteEnds
<1>24. CASE Stop(i)
  <2> SUFFICES ASSUME NEW g \in Entries PROVE Once(g)'
    BY DEF OnceI
  <2>1. UNCHANGED kv /\ (\A k \in Instances : SameWork(k))
    BY <1>24, WorkE, StopE
  <2> QED
    BY <2>1, OnceFrame, FileFrame, SameWorkE
<1>25. CASE Leave(i)
  <2> SUFFICES ASSUME NEW g \in Entries PROVE Once(g)'
    BY DEF OnceI
  <2>1. UNCHANGED kv /\ Memory({i})
    BY <1>25 DEF Leave, files
  <2>2. (\A k \in Instances : k # i => jobs'[k] = jobs[k] /\ put'[k] = put[k]) /\ jobs'[i] = <<>> /\ put'[i] = NoWrite
    BY <2>1 DEF Memory
  <2>3. \A k \in Instances : Puts(k, g)' => Puts(k, g) /\ (Renamed(k, g) => Renamed(k, g)')
    BY <2>2 DEF Puts, Renamed, NoWrite
  <2> QED
    BY <2>1, <2>3, OnceFrame, FileFrame
<1>26. CASE RemoveOwn(i)
  BY <1>26 DEF OnceI, RemoveOwn, Goes, Has, IsPut, NoDirectory, NoFiles, Once, Puts, RemovedAll, Renamed, Unmarked, io
<1>27. CASE Kill(i)
  BY <1>27 DEF DiskStoreAssumption, OnceI, Kill, Goes, Has, IsPut, Live, Locks, LocksI, Memory, NoLook, NoRead, NoStream, NoWrite, Once, Opened,
     Puts, Renamed, Serving, Unlocked, Unmarked, files
<1>28. CASE MakeDirectory(i) \/ TakeLock(i) \/ LockRefused(i) \/ KeepIdentity(i) \/ (\E d \in Instances : SweepNext(i, d) \/ SweepPasses(i, d))
  <2>1. UNCHANGED <<kv, jobs, put>>
    BY ZenonT(60), <1>28 DEF MakeDirectory, TakeLock, LockRefused, KeepIdentity, SweepNext, SweepPasses, files, io
  <2> QED
    BY <2>1, OnceSame
<1>29. CASE SweepEnd(i) \/ AdoptMoveFails(i) \/ AdoptBeside(i) \/ SweepLeave(i) \/ SweepCondemn(i) \/ (\E e \in Entries : AdoptLeaves(i, e))
  <2>1. UNCHANGED <<kv, jobs, put>>
    BY <1>29 DEF SweepEnd, AdoptLeaves, AdoptMoveFails, AdoptBeside, SweepLeave, SweepCondemn, files, io
  <2> QED
    BY <2>1, OnceSame
<1>30. CASE OpenWhole(i) \/ ReadWhole(i) \/ ClaimBegins(i) \/ RewriteSync(i) \/ RewriteFails(i) \/ (\E e \in Entries : OpenEntry(i, e))
  <2>1. UNCHANGED <<kv, jobs, put>>
    BY <1>30 DEF OpenEntry, OpenWhole, ReadWhole, ClaimBegins, RewriteSync, RewriteFails, files, io
  <2> QED
    BY <2>1, OnceSame
<1>31. CASE RewriteBeside(i) \/ SettleFails(i) \/ IdleSweep(i)
  <2>1. UNCHANGED <<kv, jobs, put>>
    BY <1>31 DEF RewriteBeside, SettleFails, IdleSweep, files, io
  <2> QED
    BY <2>1, OnceSame
<1> QED
  BY <1>1, <1>2, <1>3, <1>4, <1>5, <1>6, <1>7, <1>8, <1>9, <1>10, <1>11, <1>12, <1>13, <1>14, <1>15, <1>16, <1>17, <1>18, <1>19, <1>20, <1>21,
     <1>22, <1>23, <1>24, <1>25, <1>26, <1>27, <1>28, <1>29, <1>30, <1>31 DEF Acts, Start, Sweep, Call, ReadIO, ClaimSettle, PutIO, End

LEMMA ProvedSame == ASSUME ProvedI, UNCHANGED <<kv, disk, proved, jobs, read, srv>> PROVE ProvedI'
  BY DEF ProvedI, Proved, Has, Claims, Mine
\* Every header's checksum is over a build that proved its bytes.
LEMMA ProvedKept ==
  ASSUME DiskStoreAssumption, TypeOK, LocksI, PutI, ProvedI, ClaimingI, NEW i \in Instances, Acts(i)
  PROVE  ProvedI'
<1>1. CASE MakeDirectory(i)
  <2> SUFFICES ASSUME NEW d \in Instances, NEW g \in Entries PROVE Proved(d, g)'
    BY DEF ProvedI
  <2>1. Proved(d, g) /\ UNCHANGED <<kv, disk, jobs, read, proved>> /\ (d # i => Mine(d)' = Mine(d))
    BY <1>1, MakeDirectoryE DEF ProvedI, Mine
  <2>2. ~Claims(i, g)
    BY <1>1, MakeDirectoryE DEF LocksI, Locks, Serving, Claims
  <2> QED
    BY <2>1, <2>2, ClaimsE DEF Proved, Has
<1>2. CASE TakeLock(i)
  BY <1>2 DEF ProvedI, TakeLock, Claims, Goes, Has, Mine, NoFile, Proved, files, ghosts, io, store
<1>3. CASE LockRefused(i)
  BY <1>3 DEF ProvedI, LockRefused, Claims, Goes, Has, Mine, NoFile, Proved, files, ghosts, io, store
<1>4. CASE SweepEnd(i)
  BY <1>4 DEF ProvedI, SweepEnd, Claims, Goes, Has, Mine, NoFile, Proved, files, ghosts, io, store
<1>5. ASSUME NEW e \in Entries, AdoptPasses(i, e) PROVE ProvedI'
  <2> SUFFICES ASSUME NEW c \in Instances, NEW g \in Entries PROVE Proved(c, g)'
    BY DEF ProvedI
  <2> DEFINE d == look[i].at
  <2>1. Proved(c, g) /\ UNCHANGED <<srv, jobs, read, proved>> /\ d \in Instances /\ Readable(d, e)
    BY <1>5, AdoptPassesE DEF ProvedI
  <2>2. /\ kv'[c][g] = IF c = d /\ g = e THEN Standing(d, e) ELSE kv[c][g]
        /\ disk'[c][g] = IF c = d /\ g = e /\ kv[d][e] # Standing(d, e) THEN Standing(d, e) ELSE disk[c][g]
    BY SMTT(60), <1>5, AdoptPassesE
  <2>3. Standing(d, e).s = kv[d][e].s /\ (kv[d][e] = NoFile => Standing(d, e) = NoFile)
    BY <2>1, StandingE
  <2> QED
    BY <2>1, <2>2, <2>3, ClaimsE DEF Proved, Has, Mine
<1>6. ASSUME NEW e \in Entries, AdoptTakes(i, e) PROVE ProvedI'
  <2> SUFFICES ASSUME NEW c \in Instances, NEW g \in Entries PROVE Proved(c, g)'
    BY DEF ProvedI
  <2> DEFINE d == look[i].at
  <2>1. Proved(c, g) /\ UNCHANGED <<srv, jobs, read, proved>> /\ d \in Instances /\ Readable(d, e) /\ Standing(d, e) = WholeFor(TakenAs(i, d, e))
    BY <1>6, AdoptTakesE DEF ProvedI
  <2>2. /\ kv'[c][g] = IF c = d /\ g = e THEN Standing(d, e) ELSE kv[c][g]
        /\ disk'[c][g] = IF c = d /\ g = e /\ kv[d][e] # Standing(d, e) THEN Standing(d, e) ELSE disk[c][g]
    BY <1>6, <2>1, AdoptTakesE
  <2>3. Standing(d, e).s = kv[d][e].s /\ (kv[d][e] = NoFile => Standing(d, e) = NoFile)
    BY <2>1, StandingE
  <2> QED
    BY <2>1, <2>2, <2>3, ClaimsE DEF Proved, Has, Mine
<1>7. CASE AdoptMove(i)
  <2> SUFFICES ASSUME NEW c \in Instances, NEW g \in Entries PROVE Proved(c, g)'
    BY DEF ProvedI
  <2> DEFINE d == look[i].at  e == look[i].mv
  <2>1. Proved(c, g) /\ UNCHANGED <<srv, jobs, read, proved>> /\ d \in Instances /\ e \in Entries
    BY <1>7, AdoptMoveE DEF ProvedI
  <2>2. Proved(d, e)
    BY <2>1 DEF ProvedI
  <2>3. /\ kv'[c][g] = IF c = d /\ g = e THEN NoFile ELSE IF c = i /\ g = e THEN kv[d][e] ELSE kv[c][g]
        /\ disk'[c][g] = IF c = d /\ g = e THEN NoFile ELSE IF c = i /\ g = e THEN disk[d][e] ELSE disk[c][g]
    BY <1>7, AdoptMoveF
  <2>4. (Claims(c, g)' <=> Claims(c, g)) /\ Mine(c)' = Mine(c)
    BY <2>1, ClaimsE DEF Mine
  <2> QED
    BY <2>1, <2>2, <2>3, <2>4 DEF Proved, Has
<1>8. CASE SweepRemove(i)
  BY <1>8 DEF ProvedI, SweepRemove, Claims, Has, LookEnded, Mine, NoDirectory, NoFile, NoFiles, NoLook, Proved, RemovedAll, Unmarked, ghosts, io,
     store
<1>9. ASSUME NEW e \in Entries, Put(i, e) PROVE ProvedI'
  BY <1>9 DEF DiskStoreAssumption, ProvedI, Put, Calling, Claims, Has, Mine, NoFile, Proved, Queued, files
<1>10. ASSUME NEW e \in Entries, Get(i, e) PROVE ProvedI'
  BY <1>10 DEF DiskStoreAssumption, ProvedI, Get, Calling, Claims, Has, Mine, NoFile, Proved, Queued, files, ghosts, store
<1>11. ASSUME NEW e \in Entries, Claim(i, e) PROVE ProvedI'
  BY <1>11 DEF DiskStoreAssumption, TypeOK, ProvedI, Claim, Calling, Claims, Has, Mine, NoFile, Proved, Queued, files
<1>12. ASSUME NEW e \in Entries, Cancel(i, e) PROVE ProvedI'
  <2> SUFFICES ASSUME NEW d \in Instances, NEW g \in Entries PROVE Proved(d, g)'
    BY DEF ProvedI
  <2>1. Proved(d, g) /\ SameWork(d) /\ UNCHANGED <<kv, disk, read, proved>> /\ Mine(d)' = Mine(d)
    BY <1>12, WorkE DEF ProvedI, Mine, Cancel, files
  <2> QED
    BY <2>1 DEF Proved, Claims, SameWork, Has
<1>13. ASSUME NEW e \in Entries, Evict(i, e) PROVE ProvedI'
  <2> SUFFICES ASSUME NEW d \in Instances, NEW g \in Entries PROVE Proved(d, g)'
    BY DEF ProvedI
  <2>1. Proved(d, g) /\ SameWork(d) /\ UNCHANGED <<read, proved>> /\ Mine(d)' = Mine(d)
    BY <1>13, WorkE DEF ProvedI, Mine
  <2>2. (kv'[d][g] = NoFile \/ kv'[d][g] = kv[d][g]) /\ (disk'[d][g] = NoFile \/ disk'[d][g] = disk[d][g])
    BY <1>13, EvictE, DropsE
  <2> QED
    BY ZenonT(60), <2>1, <2>2 DEF Proved, Claims, SameWork, Has
<1>14. CASE OpenBad(i)
  BY <1>14 DEF ProvedI, OpenBad, Claims, Forgotten, Has, Mine, NoFile, NoStream, OpenEnds, Proved, Removed, Serving, WholeFor, ghosts, io
<1>15. CASE TakeRead(i)
  <2> SUFFICES ASSUME NEW d \in Instances, NEW g \in Entries PROVE Proved(d, g)'
    BY DEF ProvedI
  <2>1. Proved(d, g) /\ UNCHANGED <<kv, disk, srv, proved>> /\ (Claims(d, g)' => Claims(d, g))
    BY <1>15, TakeReadE, TakeReadC DEF ProvedI
  <2> QED
    BY <2>1 DEF Proved, Has, Mine
<1>16. CASE ReadBad(i)
  BY <1>16 DEF DiskStoreAssumption, ProvedI, ReadBad, Claims, Dropped, Forgotten, Has, Mine, NoFile, NoRead, Proved, ReadEnds, Removed, Serving,
     ghosts
<1>17. CASE ReadWhole(i)
  BY <1>17 DEF DiskStoreAssumption, ProvedI, ReadWhole, Checked, Claims, Has, Mine, NoFile, NoRead, Proved, ReadEnds, Serving, ToClaim, WholeFor,
     WrittenAs, files, ghosts, store
<1>18. CASE ClaimBegins(i)
  BY <1>18 DEF DiskStoreAssumption, TypeOK, ProvedI, ClaimBegins, Checked, Claims, Has, Locks, LocksI, Mine, NoFile, Opened, Proved, Read, Serving,
     ToClaim, WholeFor, WrittenAs, files, ghosts, store
<1>19. CASE RewriteField(i)
  <2> SUFFICES ASSUME NEW c \in Instances, NEW g \in Entries PROVE Proved(c, g)'
    BY DEF ProvedI
  <2> DEFINE e == read[i].job.e
  <2>1. Proved(c, g) /\ UNCHANGED <<disk, srv, jobs, proved>> /\ read[i].at = "field"
    BY <1>19, RewriteFieldE DEF ProvedI
  <2>2. kv'[c][g] = IF c = i /\ g = e THEN [f |-> Mine(i), s |-> kv[i][e].s] ELSE kv[c][g]
    BY <1>19, RewriteFieldE
  <2>3. kv[i][e] # NoFile
    <3>1. kv[i][e].f = read[i].theirs
      BY <1>19, RewriteFieldE
    <3>2. read[i].theirs # NoBuild
      BY <2>1 DEF ClaimingI, Claiming
    <3> QED
      BY <3>1, <3>2 DEF NoFile
  <2>4. Claims(c, g)' => Claims(c, g)
    BY ZenonT(60), <1>19, <2>1, RewriteFieldE DEF Claims
  <2> QED
    BY <2>1, <2>2, <2>3, <2>4 DEF Proved, Has, Mine
<1>20. CASE RewriteSum(i)
  <2> SUFFICES ASSUME NEW c \in Instances, NEW g \in Entries PROVE Proved(c, g)'
    BY DEF ProvedI
  <2> DEFINE e == read[i].job.e
  <2>1. Proved(c, g) /\ UNCHANGED <<disk, srv, jobs, proved>> /\ read[i].at = "sum"
    BY <1>20, RewriteSumE DEF ProvedI
  <2>2. kv'[c][g] = IF c = i /\ g = e /\ kv[c][g] # NoFile THEN WholeFor(Mine(i)) ELSE kv[c][g]
    BY <1>20, RewriteSumE
  <2>3. Claims(i, e)
    BY <2>1 DEF ClaimingI, Claiming, Claims
  <2>4. Claims(c, g)' => Claims(c, g)
    BY <1>20, <2>1, RewriteSumE DEF Claims
  <2> QED
    BY <2>1, <2>2, <2>3, <2>4 DEF Proved, Has, Mine, WholeFor
<1>21. CASE RewriteSync(i)
  BY <1>21 DEF DiskStoreAssumption, TypeOK, ProvedI, RewriteSync, Claims, Has, Locks, LocksI, Mine, NoFile, Opened, Proved, Read, ReadAt, Rewriting,
     Serving, ghosts, store
<1>22. CASE RewriteFails(i)
  BY <1>22 DEF ProvedI, RewriteFails, Claims, Has, Mine, NoFile, Proved, ReadAt, Serving, files
<1>23. CASE RewriteBeside(i)
  BY <1>23 DEF ProvedI, RewriteBeside, Claims, Has, Mine, NoFile, NoRead, Proved, ReadEnds, Rewriting, Serving, ghosts
<1>24. CASE SettleFails(i)
  BY <1>24 DEF ProvedI, SettleFails, Claims, Has, Mine, NoFile, NoRead, Proved, ReadEnds, Rewriting, Serving, files, ghosts, store
<1>25. CASE ClaimLost(i)
  BY SMTT(60), <1>25 DEF DiskStoreAssumption, TypeOK, ProvedI, ClaimLost, ClaimedBy, Claims, Dropped, Forgotten, Has, Locks, LocksI, Mine, NoFile, NoRead,
     Opened, Owner, Proved, Read, ReadEnds, Removed, Rewriting, Serving, ghosts
<1>26. CASE ClaimKept(i)
  <2> SUFFICES ASSUME NEW c \in Instances, NEW g \in Entries PROVE Proved(c, g)'
    BY DEF ProvedI
  <2> DEFINE e == read[i].job.e
  <2>1. Proved(c, g) /\ UNCHANGED <<srv, jobs, proved>> /\ e \in Entries /\ kv[i][e] # NoFile
    BY <1>26, ClaimKeptE DEF ProvedI
  <2>2. ClaimedBy(i) = kv[i][e].s
    BY SMTT(60), <1>26, ClaimKeptE DEF ClaimedBy, Owner
  <2>3. /\ kv'[c][g] = IF c = i /\ g = e THEN WholeFor(ClaimedBy(i)) ELSE kv[c][g]
        /\ disk'[c][g] = IF c = i /\ g = e /\ kv[i][e] # WholeFor(ClaimedBy(i)) THEN WholeFor(ClaimedBy(i)) ELSE disk[c][g]
    BY <1>26, ClaimKeptE
  <2>4. Claims(c, g)' => Claims(c, g)
    BY <1>26, <2>1, ClaimKeptE DEF Claims, NoRead
  <2> QED
    BY SMTT(60), <2>1, <2>2, <2>3, <2>4 DEF Proved, Has, Mine, WholeFor
<1>27. CASE TakePut(i)
  BY <1>27 DEF DiskStoreAssumption, TypeOK, ProvedI, TakePut, Claims, Has, Idle, Mine, NoFile, Proved, Reads, Serving, ToPut, files, ghosts, store
<1>28. CASE RefusePut(i)
  BY <1>28 DEF DiskStoreAssumption, TypeOK, ProvedI, RefusePut, Claims, Has, Idle, Mine, NoFile, Proved, Reads, Serving, ToPut, files, ghosts, store
<1>29. CASE PutRename(i)
  <2> SUFFICES ASSUME NEW c \in Instances, NEW g \in Entries PROVE Proved(c, g)'
    BY DEF ProvedI
  <2> DEFINE e == put[i].job.e
  <2>1. Proved(c, g) /\ UNCHANGED <<disk, srv, jobs, read, proved>> /\ e \in Entries /\ put[i].at = "synced"
    BY <1>29, PutRenameE DEF ProvedI
  <2>2. kv'[c][g] = IF c = i /\ g = e THEN WholeFor(Mine(i)) ELSE kv[c][g]
    BY <1>29, PutRenameE
  <2>3. Mine(i) \in proved[e]
    BY <2>1 DEF PutI, OnePut, Puts
  <2> QED
    BY <2>1, <2>2, <2>3, ClaimsE DEF Proved, Has, Mine, WholeFor
<1>30. CASE PutCommit(i)
  BY <1>30 DEF DiskStoreAssumption, TypeOK, ProvedI, PutCommit, Claims, Has, Idle, Locks, LocksI, Mine, NoFile, NoWrite, Opened, Proved, Serving,
     Write, WriteEnds, ghosts
<1>31. CASE PutCancelled(i)
  BY <1>31 DEF DiskStoreAssumption, ProvedI, PutCancelled, Claims, Has, Idle, Mine, NoFile, NoWrite, Proved, Removed, Serving, WriteEnds, ghosts,
     store
<1>32. CASE Stop(i)
  <2> SUFFICES ASSUME NEW d \in Instances, NEW g \in Entries PROVE Proved(d, g)'
    BY DEF ProvedI
  <2>1. Proved(d, g) /\ SameWork(d) /\ UNCHANGED <<kv, disk, read, proved>> /\ Mine(d)' = Mine(d)
    BY <1>32, WorkE, StopE DEF ProvedI, Mine
  <2> QED
    BY <2>1 DEF Proved, Claims, SameWork, Has
<1>33. CASE Leave(i)
  BY <1>33 DEF DiskStoreAssumption, ProvedI, Leave, Claims, Goes, Has, Idle, Memory, Mine, NoFile, NoLook, NoRead, NoStream, NoWrite, Proved,
     Serving, Unmarked, files, ghosts
<1>34. CASE RemoveOwn(i)
  BY <1>34 DEF DiskStoreAssumption, ProvedI, RemoveOwn, Claims, Goes, Has, Mine, NoDirectory, NoFile, NoFiles, Proved, RemovedAll, Unmarked, ghosts,
     io, store
<1>35. CASE Kill(i)
  BY <1>35, KillE DEF ProvedI, Proved, Has, Claims, Mine, Serving, Locks, LocksI, NoFile, NoFiles, Unmarked, WholeFor, Opened, NoWrite, NoRead,
     NoStream, NoLook
<1>36. CASE KeepIdentity(i) \/ AdoptMoveFails(i) \/ AdoptBeside(i) \/ (\E e \in Entries : AdoptLeaves(i, e)) \/ (\E d \in Instances : SweepNext(i, d) \/ SweepPasses(i, d))
  <2>1. UNCHANGED <<kv, disk, proved, jobs, read, srv>>
    BY ZenonT(60), <1>36 DEF KeepIdentity, SweepNext, SweepPasses, AdoptLeaves, AdoptMoveFails, AdoptBeside, files, ghosts, io
  <2> QED
    BY <2>1, ProvedSame
<1>37. CASE SweepLeave(i) \/ SweepCondemn(i) \/ OpenWhole(i) \/ PutWrite(i) \/ PutFails(i) \/ (\E e \in Entries : OpenEntry(i, e))
  <2>1. UNCHANGED <<kv, disk, proved, jobs, read, srv>>
    BY <1>37 DEF SweepLeave, SweepCondemn, OpenEntry, OpenWhole, PutWrite, PutFails, files, ghosts, io
  <2> QED
    BY <2>1, ProvedSame
<1>38. CASE IdleSweep(i)
  <2>1. UNCHANGED <<kv, disk, proved, jobs, read, srv>>
    BY <1>38 DEF IdleSweep, files, ghosts, io
  <2> QED
    BY <2>1, ProvedSame
<1> QED
  BY <1>1, <1>2, <1>3, <1>4, <1>5, <1>6, <1>7, <1>8, <1>9, <1>10, <1>11, <1>12, <1>13, <1>14, <1>15, <1>16, <1>17, <1>18, <1>19, <1>20, <1>21,
     <1>22, <1>23, <1>24, <1>25, <1>26, <1>27, <1>28, <1>29, <1>30, <1>31, <1>32, <1>33, <1>34, <1>35, <1>36, <1>37, <1>38 DEF Acts, Start, Sweep,
     Call, ReadIO, ClaimSettle, PutIO, End

LEMMA HeadedSame == ASSUME HeadedI, UNCHANGED <<kv, disk, from, dir, weak, read>> PROVE HeadedI'
  BY DEF HeadedI, Headed, Has, Syncing
\* Headers, the identities beside them and the disk.
LEMMA HeadedKept ==
  ASSUME DiskStoreAssumption, TypeOK, LocksI, EmptyI, OnceI, KnownI, HeadedI, ClaimingI, MovingI, NEW i \in Instances, Acts(i)
  PROVE  HeadedI'
<1>1. CASE MakeDirectory(i)
  BY <1>1 DEF HeadedI, MakeDirectory, Has, Headed, Syncing, files, ghosts, io, store
<1>2. CASE TakeLock(i)
  BY <1>2 DEF HeadedI, TakeLock, Goes, Has, Headed, Syncing, files, ghosts, io, store
<1>3. CASE KeepIdentity(i)
  <2> SUFFICES ASSUME NEW k \in Instances, NEW g \in Entries PROVE Headed(k, g)'
    BY DEF HeadedI
  <2>1. UNCHANGED <<kv, disk, from, read, weak>> /\ (\E b : dir' = [dir EXCEPT ![i].id = b]) /\ dir \in [Instances -> Directory]
    BY <1>3 DEF KeepIdentity, files, io, ghosts, TypeOK
  <2>2. Syncing(k, g) => Syncing(k, g)'
    BY <2>1 DEF Syncing
  <2>3. CASE k # i
    <3>1. dir'[k].id = dir[k].id
      BY <2>1, <2>3
    <3> QED
      BY <2>1, <2>2, <3>1, HeadedFrame
  <2>4. CASE k = i
    <3>1. kv[i][g] = NoFile
      BY <1>3 DEF KeepIdentity, EmptyI, Empty, Fresh, Has
    <3> QED
      BY <2>1, <2>4, <3>1, HeadedGone
  <2> QED
    BY <2>3, <2>4
<1>4. ASSUME NEW d \in Instances, SweepNext(i, d) PROVE HeadedI'
  BY <1>4 DEF DiskStoreAssumption, HeadedI, SweepNext, Adopts, Files, Has, Headed, SweepsOn, Syncing, files, ghosts, io, store
<1>5. ASSUME NEW e \in Entries, AdoptPasses(i, e) PROVE HeadedI'
  <2> SUFFICES ASSUME NEW k \in Instances, NEW g \in Entries PROVE Headed(k, g)'
    BY DEF HeadedI
  <2> DEFINE d == look[i].at
  <2>1. d \in Instances /\ ~Serving(d) /\ UNCHANGED <<dir, read, weak>>
    BY <1>5, AdoptO
  <2>2. UNCHANGED from /\ Readable(d, e)
    BY <1>5, AdoptPassesE
  <2>3. kv'[k][g] = IF k = d /\ g = e THEN Standing(d, e) ELSE kv[k][g]
    BY <1>5, AdoptPassesE
  <2>4. disk'[k][g] = IF k = d /\ g = e /\ kv[d][e] # Standing(d, e) THEN Standing(d, e) ELSE disk[k][g]
    BY <1>5, AdoptPassesE
  <2>5. Syncing(k, g) => Syncing(k, g)'
    BY <2>1 DEF Syncing
  <2>6. CASE ~(k = d /\ g = e /\ Marked(d, e))
    <3>1. kv'[k][g] = kv[k][g] /\ disk'[k][g] = disk[k][g]
      BY <2>1, <2>2, <2>3, <2>4, <2>6, StandingE
    <3> QED
      BY <2>1, <2>2, <2>5, <3>1, HeadedFrame
  <2>7. CASE k = d /\ g = e /\ Marked(d, e)
    <3>1. kv[d][e] # NoFile /\ Standing(d, e) = WholeFor(kv[d][e].s) /\ from[d][e] # NoBuild
      BY <2>1, <2>2, <2>7, StandingE DEF Marked
    <3>2. ~Syncing(d, e)
      BY <2>1, SyncingE
    <3> HIDE DEF d
    <3> QED
      BY <2>1, <2>2, <2>3, <2>4, <2>7, <3>1, <3>2, HeadedSettled
  <2> QED
    BY <2>6, <2>7
<1>6. ASSUME NEW e \in Entries, AdoptTakes(i, e) PROVE HeadedI'
  <2> SUFFICES ASSUME NEW k \in Instances, NEW g \in Entries PROVE Headed(k, g)'
    BY DEF HeadedI
  <2> DEFINE d == look[i].at
  <2>1. d \in Instances /\ d # i /\ ~Serving(d) /\ UNCHANGED <<dir, read, weak>>
    BY <1>6, AdoptO
  <2>2. Readable(d, e) /\ Standing(d, e) = WholeFor(TakenAs(i, d, e))
    BY <1>6, AdoptTakesE
  <2>3. kv'[k][g] = IF k = d /\ g = e THEN Standing(d, e) ELSE kv[k][g]
    BY <1>6, <2>2, AdoptTakesF
  <2>4. disk'[k][g] = IF k = d /\ g = e /\ kv[d][e] # Standing(d, e) THEN Standing(d, e) ELSE disk[k][g]
    BY <1>6, <2>2, AdoptTakesF
  <2>5. Syncing(k, g) => Syncing(k, g)'
    BY <2>1 DEF Syncing
  <2>6. k # i \/ g # e => from'[k][g] = from[k][g]
    BY <1>6, AdoptTakesF
  <2>7. CASE k = i /\ g = e
    <3>1. TakenAs(i, d, e) # NoBuild
      BY <2>1, MineT DEF TakenAs, DiskStoreAssumption
    <3>2. kv[d][e] # NoFile
      BY <2>1, <2>2, <3>1, StandingE, WholeIsFile
    <3>3. kv[i][e] = NoFile
      BY <2>1, <3>2 DEF OnceI, Once, Has
    <3> QED
      BY <2>1, <2>3, <2>7, <3>3, HeadedGone
  <2>8. CASE ~(k = i /\ g = e) /\ ~(k = d /\ g = e /\ Marked(d, e))
    <3>1. kv'[k][g] = kv[k][g] /\ disk'[k][g] = disk[k][g]
      BY <2>1, <2>2, <2>3, <2>4, <2>8, StandingE
    <3> QED
      BY <2>1, <2>5, <2>6, <2>8, <3>1, HeadedFrame
  <2>9. CASE k = d /\ g = e /\ Marked(d, e)
    <3>1. kv[d][e] # NoFile /\ Standing(d, e) = WholeFor(kv[d][e].s) /\ from[d][e] # NoBuild
      BY <2>1, <2>2, <2>9, StandingE DEF Marked
    <3>2. ~Syncing(d, e) /\ from'[d][e] = from[d][e]
      BY <2>1, <2>6, <2>9, SyncingE
    <3> HIDE DEF d
    <3> QED
      BY <2>1, <2>3, <2>4, <2>9, <3>1, <3>2, HeadedSettled
  <2> QED
    BY <2>7, <2>8, <2>9
<1>7. CASE AdoptMove(i)
  <2> SUFFICES ASSUME NEW k \in Instances, NEW g \in Entries PROVE Headed(k, g)'
    BY DEF HeadedI
  <2> DEFINE d == look[i].at  e == look[i].mv  as == look[i].as
  <2>1. UNCHANGED <<dir, read, weak, from>> /\ e \in Entries
    BY <1>7, AdoptMoveE
  <2>2. Syncing(k, g) => Syncing(k, g)'
    BY <2>1 DEF Syncing
  <2>3. d \in Instances /\ d # i /\ Opened(i) /\ look[i].phase = "move" /\ dir[i].there /\ kv[d][e] # NoFile
    BY ZenonT(60), <1>7, AdoptO DEF AdoptMove
  <2>4. CASE k = i /\ g = e
    <3>1. kv'[k][g] = kv[d][e] /\ disk'[k][g] = disk[d][e]
      BY <1>7, <2>3, <2>4, AdoptMoveF
    <3>2. as # NoBuild /\ ~Has(i, e) /\ kv[d][e] = WholeFor(as) /\ (e \notin weak => disk[d][e] \in {WholeFor(as), NoFile})
      BY <2>3 DEF MovingI, Moving, Has
    <3>3. from[i][e] = IF as # Mine(i) THEN as ELSE NoBuild
      BY <2>1, <2>3, <3>2 DEF KnownI, Known, Moves
    <3>4. ~Fresh(i)
      BY <2>3 DEF LocksI, Locks, Fresh, Opened
    <3>5. dir[i].id = Mine(i)
      BY <2>1, <2>3, <3>4, KnownIdE
    <3>6. WholeFor(as).f = as /\ WholeFor(as).s = as
      BY DEF WholeFor
    <3> HIDE DEF d, e, as
    <3> QED
      BY <2>1, <2>4, <3>1, <3>2, <3>3, <3>5, <3>6 DEF Headed
  <2>5. CASE k = d /\ g = e
    BY <1>7, <2>3, <2>5, AdoptMoveF, HeadedGone
  <2>6. CASE ~(k = i /\ g = e) /\ ~(k = d /\ g = e)
    <3>1. kv'[k][g] = kv[k][g] /\ disk'[k][g] = disk[k][g]
      BY <1>7, <2>6, AdoptMoveF
    <3> QED
      BY <2>1, <2>2, <3>1, HeadedFrame
  <2> QED
    BY <2>4, <2>5, <2>6
<1>8. CASE AdoptMoveFails(i)
  <2> SUFFICES ASSUME NEW k \in Instances, NEW g \in Entries PROVE Headed(k, g)'
    BY DEF HeadedI
  <2>1. UNCHANGED <<kv, disk, dir, read, weak>> /\ from' = [from EXCEPT ![i][look[i].mv] = NoBuild] /\ look[i].phase = "move"
    BY <1>8 DEF AdoptMoveFails, io, ghosts
  <2>2. Syncing(k, g) => Syncing(k, g)'
    BY <2>1 DEF Syncing
  <2>3. CASE k = i /\ g = look[i].mv
    BY <2>1, <2>3, HeadedGone DEF MovingI, Moving, Has
  <2>4. CASE ~(k = i /\ g = look[i].mv)
    <3>1. from'[k][g] = from[k][g]
      BY <2>1, <2>4 DEF TypeOK
    <3> QED
      BY <2>1, <2>2, <3>1, HeadedFrame
  <2> QED
    BY <2>3, <2>4
<1>9. CASE AdoptBeside(i)
  <2> SUFFICES ASSUME NEW k \in Instances, NEW g \in Entries PROVE Headed(k, g)'
    BY DEF HeadedI
  <2>1. UNCHANGED <<kv, disk, dir, read, weak>> /\ from' = [from EXCEPT ![look[i].at][look[i].mv] = NoBuild] /\ look[i].phase = "beside"
    BY <1>9 DEF AdoptBeside, io, ghosts
  <2>2. Syncing(k, g) => Syncing(k, g)'
    BY <2>1 DEF Syncing
  <2>3. CASE k = look[i].at /\ g = look[i].mv
    BY <2>1, <2>3, HeadedGone DEF MovingI, Moving, Has
  <2>4. CASE ~(k = look[i].at /\ g = look[i].mv)
    <3>1. from'[k][g] = from[k][g]
      BY <2>1, <2>4 DEF TypeOK
    <3> QED
      BY <2>1, <2>2, <3>1, HeadedFrame
  <2> QED
    BY <2>3, <2>4
<1>10. CASE SweepLeave(i)
  BY SMTT(60), <1>10 DEF DiskStoreAssumption, TypeOK, HeadedI, SweepLeave, Adopts, Directory, Has, Headed, Locks, LocksI, Look, LookEnded, NoLook, Opened,
     Serving, Spared, SweepDone, Syncing, files, ghosts, io, store
<1>11. CASE SweepCondemn(i)
  <2> SUFFICES ASSUME NEW k \in Instances, NEW g \in Entries PROVE Headed(k, g)'
    BY DEF HeadedI
  <2>1. UNCHANGED <<kv, disk, from, read, weak>> /\ SweepDone(i)
    BY <1>11, SweepCondemnE
  <2>2. Syncing(k, g) => Syncing(k, g)'
    BY <2>1 DEF Syncing
  <2> QED
    BY <2>1, <2>2, SweepDoneE, HeadedFrame
<1>12. CASE SweepRemove(i)
  BY SMTT(60), <1>12 DEF DiskStoreAssumption, TypeOK, HeadedI, SweepRemove, Directory, Has, Headed, Locks, LocksI, Look, LookEnded, NoDirectory, NoFiles,
     NoLook, Opened, RemovedAll, Serving, Syncing, Unmarked, ghosts, io, store
<1>13. ASSUME NEW e \in Entries, Evict(i, e) PROVE HeadedI'
  <2>1. UNCHANGED <<dir, read, weak>> /\ Removed(i, e)
    BY <1>13, EvictE
  <2>2. \A k \in Instances, g \in Entries : Syncing(k, g) => Syncing(k, g)'
    BY <2>1 DEF Syncing
  <2> QED
    BY <2>1, <2>2, HeadedDrop
<1>14. CASE OpenBad(i)
  <2>1. UNCHANGED <<dir, read, weak>> /\ stream[i].e \in Entries /\ Removed(i, stream[i].e)
    BY <1>14, OpenBadE
  <2>2. \A k \in Instances, g \in Entries : Syncing(k, g) => Syncing(k, g)'
    BY <2>1 DEF Syncing
  <2> QED
    BY <2>1, <2>2, HeadedDrop
<1>15. CASE TakeRead(i)
  BY SMTT(60), <1>15 DEF DiskStoreAssumption, TypeOK, HeadedI, TakeRead, FirstRead, Has, Headed, Idle, Locks, LocksI, Mine, NoFile, Opened, Read, Reads,
     Serving, Syncing, WholeFor, files, ghosts, store
<1>16. CASE ReadBad(i)
  <2>1. UNCHANGED <<dir, weak>> /\ read[i].job.e \in Entries /\ Removed(i, read[i].job.e) /\ (\A k \in Instances : read'[k] = IF k = i THEN NoRead ELSE read[k]) /\ read[i].at \in {"check", "settle"}
    BY <1>16, DroppedE
  <2>2. \A k \in Instances, g \in Entries : Syncing(k, g) => Syncing(k, g)'
    BY <2>1 DEF Syncing
  <2> QED
    BY <2>1, <2>2, HeadedDrop
<1>17. CASE ReadWhole(i)
  BY <1>17 DEF DiskStoreAssumption, TypeOK, HeadedI, ReadWhole, Checked, Has, Headed, Locks, LocksI, NoRead, Opened, Read, ReadEnds, Serving,
     Syncing, ToClaim, WrittenAs, files, ghosts, store
<1>18. CASE ClaimBegins(i)
  BY <1>18 DEF DiskStoreAssumption, TypeOK, HeadedI, ClaimBegins, Checked, Has, Headed, Locks, LocksI, Opened, Read, Serving, Syncing, ToClaim,
     WrittenAs, files, ghosts, store
<1>19. CASE RewriteField(i)
  <2> SUFFICES ASSUME NEW k \in Instances, NEW g \in Entries PROVE Headed(k, g)'
    BY DEF HeadedI
  <2> DEFINE e == read[i].job.e
  <2>1. e \in Entries /\ read[i].at = "field" /\ kv[i][e].f = read[i].theirs /\ UNCHANGED <<dir, disk, from, weak>>
    BY <1>19, RewriteFieldE
  <2>2. Syncing(k, g) => Syncing(k, g)'
    BY ZenonT(60), <1>19, <2>1, RewriteFieldE DEF Syncing
  <2>3. CASE ~(k = i /\ g = e)
    <3>1. kv'[k][g] = kv[k][g]
      BY <1>19, <2>3, RewriteFieldF
    <3> QED
      BY <2>1, <2>2, <3>1, HeadedFrame
  <2>4. CASE k = i /\ g = e
    <3>1. read[i].theirs # NoBuild
      BY ZenonT(60), <2>1 DEF ClaimingI, Claiming
    <3>2. kv[i][e] # NoFile
      BY <2>1, <3>1 DEF NoFile
    <3>3. from[i][e] = read[i].theirs /\ dir[i].id = Mine(i) /\ read[i].theirs # Mine(i)
      BY <2>1, <3>2, ClaimFileE
    <3>4. kv[i][e] = WholeFor(read[i].theirs)
      BY ZenonT(60), <2>1, <3>2 DEF ClaimingI, Claiming, Has
    <3>5. kv'[i][e] = [f |-> Mine(i), s |-> read[i].theirs]
      BY <1>19, <2>1, <3>4, RewriteFieldE DEF WholeFor
    <3>6. e \notin weak => disk[i][e] \in {WholeFor(read[i].theirs), NoFile}
      <4>1. Headed(i, e)
        BY <2>1 DEF HeadedI
      <4>2. WholeFor(read[i].theirs) # [f |-> Mine(i), s |-> read[i].theirs] /\ WholeFor(read[i].theirs) # WholeFor(Mine(i))
        BY <3>3 DEF WholeFor
      <4> QED
        BY <3>1, <3>2, <3>3, <3>4, <4>1, <4>2 DEF Headed, Has
    <3>7. from'[i][e] = read[i].theirs /\ dir'[i].id = Mine(i) /\ weak' = weak /\ disk'[i][e] = disk[i][e]
      BY <2>1, <3>3
    <3>8. [f |-> Mine(i), s |-> read[i].theirs].s = read[i].theirs
      OBVIOUS
    <3> HIDE DEF e
    <3> QED
      BY <2>4, <3>1, <3>3, <3>5, <3>6, <3>7, <3>8 DEF Headed
  <2> QED
    BY <2>3, <2>4
<1>20. CASE RewriteSum(i)
  <2> SUFFICES ASSUME NEW k \in Instances, NEW g \in Entries PROVE Headed(k, g)'
    BY DEF HeadedI
  <2> DEFINE e == read[i].job.e
  <2>1. e \in Entries /\ read[i].at = "sum" /\ UNCHANGED <<dir, disk, from, weak>>
    BY <1>20, RewriteSumE
  <2>2. Syncing(k, g) => Syncing(k, g)'
    BY <1>20, <2>1, RewriteSumE DEF Syncing
  <2>3. CASE ~(k = i /\ g = e /\ kv[i][e] # NoFile)
    <3>1. kv'[k][g] = kv[k][g]
      BY <1>20, <2>3, RewriteSumE
    <3> QED
      BY <2>1, <2>2, <3>1, HeadedFrame
  <2>4. CASE k = i /\ g = e /\ kv[i][e] # NoFile
    <3>3. from[i][e] = read[i].theirs /\ dir[i].id = Mine(i) /\ read[i].theirs # Mine(i) /\ read[i].theirs # NoBuild
      BY <2>1, <2>4, ClaimFileE
    <3>4. e \notin weak => disk[i][e] \in {WholeFor(read[i].theirs), NoFile}
      BY ZenonT(60), <2>1, <2>4 DEF ClaimingI, Claiming, Has
    <3>5. kv'[i][e] = WholeFor(Mine(i))
      BY <1>20, <2>1, <2>4, RewriteSumE
    <3>6. Syncing(k, g)'
      BY <1>20, <2>4, RewriteSumE DEF Syncing
    <3>7. from'[i][e] = read[i].theirs /\ dir'[i].id = Mine(i) /\ weak' = weak /\ disk'[i][e] = disk[i][e]
      BY <2>1, <3>3
    <3>8. WholeFor(Mine(i)).s = Mine(i)
      BY DEF WholeFor
    <3> HIDE DEF e
    <3> QED
      BY <2>4, <3>3, <3>4, <3>5, <3>6, <3>7, <3>8 DEF Headed
  <2> QED
    BY <2>3, <2>4
<1>21. CASE RewriteSync(i)
  <2> SUFFICES ASSUME NEW k \in Instances, NEW g \in Entries PROVE Headed(k, g)'
    BY DEF HeadedI
  <2> DEFINE e == read[i].job.e
  <2>1. e \in Entries /\ UNCHANGED <<dir, kv, from, weak>> /\ disk' = [disk EXCEPT ![i][e] = kv[i][e]] /\ ReadAt(i, "beside")
    BY <1>21, JobT DEF RewriteSync, store, ghosts
  <2>2. disk'[k][g] = IF k = i /\ g = e THEN kv[i][e] ELSE disk[k][g]
    <3>1. disk \in [Instances -> [Entries -> Header]]
      BY DEF TypeOK
    <3> QED
      BY <2>1, <3>1
  <2>3. CASE ~(k = i /\ g = e)
    <3>1. Syncing(k, g) => Syncing(k, g)'
      <4>1. k # i => read'[k] = read[k]
        BY <2>1, ReadAtE
      <4> QED
        BY <2>3, <4>1 DEF Syncing
    <3> QED
      BY <2>1, <2>2, <2>3, <3>1, HeadedFrame
  <2>4. CASE k = i /\ g = e
    <3>1. Headed(i, e)
      BY <2>1 DEF HeadedI
    <3>2. kv'[i][e] = kv[i][e] /\ disk'[i][e] = kv[i][e] /\ from'[i][e] = from[i][e] /\ dir'[i].id = dir[i].id /\ weak' = weak
      BY <2>1, <2>2, <2>4
    <3> HIDE DEF e
    <3> QED
      BY <2>4, <3>1, <3>2 DEF Headed, Has
  <2> QED
    BY <2>3, <2>4
<1>22. CASE RewriteFails(i)
  BY <1>22 DEF DiskStoreAssumption, HeadedI, RewriteFails, Has, Headed, ReadAt, Serving, Syncing, files
<1>23. CASE RewriteBeside(i)
  <2> SUFFICES ASSUME NEW k \in Instances, NEW g \in Entries PROVE Headed(k, g)'
    BY DEF HeadedI
  <2> DEFINE e == read[i].job.e
  <2>1. e \in Entries /\ read[i].at = "beside" /\ UNCHANGED <<dir, kv, disk, weak>> /\ from' = [from EXCEPT ![i][e] = NoBuild] /\ read' = [read EXCEPT ![i] = NoRead]
    BY <1>23, JobT DEF RewriteBeside, Rewriting, ReadEnds, ghosts
  <2>2. from'[k][g] = IF k = i /\ g = e THEN NoBuild ELSE from[k][g]
    <3>1. from \in [Instances -> [Entries -> Build]]
      BY DEF TypeOK
    <3> QED
      BY <2>1, <3>1
  <2>3. CASE ~(k = i /\ g = e)
    <3>1. Syncing(k, g) => Syncing(k, g)'
      <4>1. k # i => read'[k] = read[k]
        BY <2>1 DEF TypeOK
      <4> QED
        BY <2>3, <4>1 DEF Syncing
    <3> QED
      BY <2>1, <2>2, <2>3, <3>1, HeadedFrame
  <2>4. CASE k = i /\ g = e
    <3>1. kv[i][e] # NoFile => kv[i][e] = WholeFor(Mine(i)) /\ disk[i][e] = kv[i][e]
      BY ZenonT(60), <2>1 DEF ClaimingI, Claiming, Has
    <3>2. kv'[i][e] = kv[i][e] /\ disk'[i][e] = disk[i][e] /\ from'[i][e] = NoBuild
      BY <2>1, <2>2, <2>4
    <3>3. WholeFor(Mine(i)).f = WholeFor(Mine(i)).s
      BY DEF WholeFor
    <3> HIDE DEF e
    <3> QED
      BY <2>4, <3>1, <3>2, <3>3 DEF Headed, Has
  <2> QED
    BY <2>3, <2>4
<1>24. CASE SettleFails(i)
  BY <1>24 DEF DiskStoreAssumption, HeadedI, SettleFails, Has, Headed, NoRead, ReadEnds, Rewriting, Serving, Syncing, files, ghosts, store
<1>25. CASE ClaimLost(i)
  <2>1. UNCHANGED <<dir, weak>> /\ read[i].job.e \in Entries /\ Removed(i, read[i].job.e) /\ (\A k \in Instances : read'[k] = IF k = i THEN NoRead ELSE read[k]) /\ read[i].at \in {"check", "settle"}
    BY <1>25, DroppedE
  <2>2. \A k \in Instances, g \in Entries : Syncing(k, g) => Syncing(k, g)'
    BY <2>1 DEF Syncing
  <2> QED
    BY <2>1, <2>2, HeadedDrop
<1>26. CASE ClaimKept(i)
  <2> SUFFICES ASSUME NEW k \in Instances, NEW g \in Entries PROVE Headed(k, g)'
    BY DEF HeadedI
  <2> DEFINE e == read[i].job.e
  <2>1. e \in Entries /\ read[i].at = "settle" /\ kv[i][e] # NoFile /\ ClaimedBy(i) # NoBuild /\ UNCHANGED <<dir, from, weak>>
    BY <1>26, ClaimKeptE
  <2>2. CASE ~(k = i /\ g = e)
    <3>1. kv'[k][g] = kv[k][g] /\ disk'[k][g] = disk[k][g]
      BY <1>26, <2>2, ClaimKeptE
    <3>2. k # i => read'[k] = read[k]
      BY <1>26, ClaimKeptE
    <3>3. Syncing(k, g) => Syncing(k, g)'
      BY <2>1, <3>2 DEF Syncing
    <3> QED
      BY <2>1, <3>1, <3>3, HeadedFrame
  <2>3. CASE k = i /\ g = e
    <3>1. from[i][e] # NoBuild
      BY <2>1, ClaimFileE
    <3>2. ClaimedBy(i) = kv[i][e].s
      BY <2>1 DEF ClaimedBy, Owner
    <3>3. kv'[i][e] = WholeFor(kv[i][e].s)
      BY <1>26, <2>1, <3>2, ClaimKeptE
    <3>4. disk'[i][e] = IF kv[i][e] # WholeFor(kv[i][e].s) THEN WholeFor(kv[i][e].s) ELSE disk[i][e]
      BY <1>26, <2>1, <3>2, ClaimKeptE
    <3>5. ~Syncing(i, e)
      BY <2>1 DEF Syncing
    <3> HIDE DEF e
    <3> QED
      BY <2>1, <2>3, <3>1, <3>3, <3>4, <3>5, HeadedSettled
  <2> QED
    BY <2>2, <2>3
<1>27. CASE TakePut(i)
  BY <1>27 DEF DiskStoreAssumption, TypeOK, HeadedI, TakePut, Directory, Has, Headed, Idle, Locks, LocksI, Opened, Reads, Serving, Syncing, ToPut,
     Write, files, ghosts, store
<1>28. CASE PutRename(i)
  <2> SUFFICES ASSUME NEW k \in Instances, NEW g \in Entries PROVE Headed(k, g)'
    BY DEF HeadedI
  <2> DEFINE e == put[i].job.e
  <2>1. e \in Entries /\ put[i].at = "synced" /\ Serving(i) /\ UNCHANGED <<from, disk, read, weak>>
    BY <1>28, PutRenameE
  <2>2. CASE ~(k = i /\ g = e)
    <3>1. kv'[k][g] = kv[k][g] /\ dir'[k].id = dir[k].id
      BY <1>28, <2>2, PutRenameE
    <3>2. Syncing(k, g) => Syncing(k, g)'
      BY <2>1 DEF Syncing
    <3> QED
      BY <2>1, <3>1, <3>2, HeadedFrame
  <2>3. CASE k = i /\ g = e
    <3>1. ~Has(i, e)
      BY <2>1 DEF OnceI, Once, Puts, Renamed
    <3>2. from[i][e] = NoBuild
      BY <2>1, <3>1, ServingE DEF KnownI, Known
    <3>3. disk[i][e] = NoFile
      BY <2>1, <3>1 DEF EmptyI, Empty
    <3>4. kv'[i][e] = WholeFor(Mine(i))
      BY <1>28, <2>1, PutRenameE
    <3>5. WholeFor(Mine(i)).f = WholeFor(Mine(i)).s
      BY DEF WholeFor
    <3>6. from'[i][e] = NoBuild /\ disk'[i][e] = NoFile
      BY <2>1, <3>2, <3>3
    <3> HIDE DEF e
    <3> QED
      BY <2>3, <3>4, <3>5, <3>6 DEF Headed
  <2> QED
    BY <2>2, <2>3
<1>29. CASE PutFails(i)
  BY <1>29 DEF DiskStoreAssumption, TypeOK, HeadedI, PutFails, Has, Headed, Idle, NoWrite, Serving, Syncing, Untemped, WriteEnds, files, ghosts, store
<1>30. CASE PutCommit(i)
  BY SMTT(60), <1>30 DEF DiskStoreAssumption, TypeOK, HeadedI, PutCommit, Has, Headed, Idle, Locks, LocksI, Mine, NoFile, NoWrite, Opened, Serving, Syncing,
     WholeFor, Write, WriteEnds, ghosts
<1>31. CASE PutCancelled(i)
  <2>1. UNCHANGED <<dir, read, weak>> /\ Removed(i, put[i].job.e) /\ put[i].job.e \in Entries
    BY <1>31, JobT DEF PutCancelled, ghosts
  <2>2. \A k \in Instances, g \in Entries : Syncing(k, g) => Syncing(k, g)'
    BY <2>1 DEF Syncing
  <2> QED
    BY <2>1, <2>2, HeadedDrop
<1>32. CASE Leave(i)
  <2> SUFFICES ASSUME NEW k \in Instances, NEW g \in Entries PROVE Headed(k, g)'
    BY DEF HeadedI
  <2>1. UNCHANGED <<kv, disk, from, weak>> /\ read'[k] = (IF k \in {i} THEN NoRead ELSE read[k]) /\ read[i].at = "none"
    BY <1>32 DEF Leave, Memory, Idle, files, ghosts
  <2>2. dir'[k].id = dir[k].id
    <3>1. dir \in [Instances -> Directory] /\ dir' = [dir EXCEPT ![i] = [dir[i] EXCEPT !.lock = Nobody, !.kept = srv[i].cfg.keep /\ dir[i].there]]
      BY <1>32 DEF Leave, TypeOK
    <3> QED
      BY <3>1 DEF Directory
  <2>3. Syncing(k, g) => Syncing(k, g)'
    BY <2>1 DEF Syncing
  <2> QED
    BY <2>1, <2>2, <2>3, HeadedFrame
<1>33. CASE RemoveOwn(i)
  BY <1>33 DEF DiskStoreAssumption, TypeOK, HeadedI, RemoveOwn, Goes, Has, Headed, NoDirectory, NoFiles, RemovedAll, Syncing, Unmarked, ghosts, io,
     store
<1>34. CASE Kill(i)
  <2> SUFFICES ASSUME NEW k \in Instances, NEW g \in Entries PROVE Headed(k, g)'
    BY DEF HeadedI
  <2>1. UNCHANGED <<kv, disk, from>> /\ weak \subseteq weak' /\ dir'[k].id = dir[k].id /\ (k # i => read'[k] = read[k])
    BY <1>34, KillE
  <2>2. Syncing(k, g) => Syncing(k, g)' \/ g \in weak'
    BY <1>34, <2>1, KillE DEF Syncing
  <2> QED
    BY <2>1, <2>2, HeadedFrame
<1>35. CASE LockRefused(i) \/ SweepEnd(i) \/ (\E e \in Entries : AdoptLeaves(i, e) \/ Put(i, e) \/ Get(i, e)) \/ (\E d \in Instances : SweepPasses(i, d))
  <2>1. UNCHANGED <<kv, disk, from, dir, weak, read>>
    BY <1>35 DEF LockRefused, SweepPasses, SweepEnd, AdoptLeaves, Put, Get, files, ghosts, io
  <2> QED
    BY <2>1, HeadedSame
<1>36. CASE OpenWhole(i) \/ RefusePut(i) \/ PutWrite(i) \/ (\E e \in Entries : Claim(i, e) \/ Cancel(i, e) \/ OpenEntry(i, e))
  <2>1. UNCHANGED <<kv, disk, from, dir, weak, read>>
    BY <1>36 DEF Claim, Cancel, OpenEntry, OpenWhole, RefusePut, PutWrite, files, ghosts, io
  <2> QED
    BY <2>1, HeadedSame
<1>37. CASE IdleSweep(i) \/ Stop(i)
  <2>1. UNCHANGED <<kv, disk, from, dir, weak, read>>
    BY <1>37 DEF IdleSweep, Stop, files, ghosts, io
  <2> QED
    BY <2>1, HeadedSame
<1> QED
  BY <1>1, <1>2, <1>3, <1>4, <1>5, <1>6, <1>7, <1>8, <1>9, <1>10, <1>11, <1>12, <1>13, <1>14, <1>15, <1>16, <1>17, <1>18, <1>19, <1>20, <1>21,
     <1>22, <1>23, <1>24, <1>25, <1>26, <1>27, <1>28, <1>29, <1>30, <1>31, <1>32, <1>33, <1>34, <1>35, <1>36, <1>37 DEF Acts, Start, Sweep, Call,
     ReadIO, ClaimSettle, PutIO, End

LEMMA KnownSame == ASSUME KnownI, UNCHANGED <<dir, srv, look, kv, from, sizes, foreign, put>> PROVE KnownI'
  BY DEF KnownI, Known, Opened, Fresh, Mine, Renamed, Has, Moves
\* A server's index and its directory.
LEMMA KnownKept ==
  ASSUME DiskStoreAssumption, TypeOK, LocksI, EmptyI, OnceI, PutI, KnownI, ClaimingI, MovingI, NEW i \in Instances, Acts(i)
  PROVE  KnownI'
<1>1. CASE MakeDirectory(i)
  BY <1>1 DEF KnownI, MakeDirectory, Fresh, Has, Known, Mine, Moves, NoFile, Opened, Renamed, files, ghosts, io, store
<1>2. CASE TakeLock(i)
  <2> SUFFICES ASSUME NEW k \in Instances, NEW g \in Entries PROVE Known(k, g)'
    BY DEF KnownI
  <2>0. Known(k, g)
    BY DEF KnownI
  <2>1. UNCHANGED <<kv, from, sizes, foreign, put, look>> /\ Goes(i, "locked") /\ srv[i].pc = "made" /\ dir' = [dir EXCEPT ![i].lock = i] /\ dir \in [Instances -> Directory]
    BY <1>2 DEF TakeLock, files, store, io, TypeOK
  <2>2. dir'[k].there = dir[k].there /\ dir'[k].id = dir[k].id
    BY <2>1 DEF Directory
  <2>3. CASE k # i
    <3>1. srv'[k] = srv[k]
      BY <2>1, <2>3, GoesE
    <3>2. (Opened(k)' <=> Opened(k)) /\ (Fresh(k)' <=> Fresh(k))
      BY <2>1, <3>1 DEF Opened, Fresh
    <3>3. (Renamed(k, g)' <=> Renamed(k, g)) /\ (Has(k, g)' <=> Has(k, g)) /\ (Moves(k, g)' <=> Moves(k, g))
      BY <2>1, <2>2, <3>1 DEF Renamed, Has, Moves, Mine
    <3>4. /\ srv'[k].cfg = srv[k].cfg /\ foreign'[k][g] = foreign[k][g] /\ sizes'[k] = sizes[k] /\ from'[k][g] = from[k][g] /\ look'[k] = look[k]
      BY <2>1, <3>1
    <3> QED
      BY <2>0, <2>2, <3>2, <3>3, <3>4, KnownFrame
  <2>4. CASE k = i
    <3>1. srv'[i].pc = "locked" /\ srv'[i].cfg = srv[i].cfg
      BY <2>1, GoesE
    <3>2. look[i].sweep = "no" /\ put[i].at = "none" /\ look[i].phase # "move"
      BY <2>1 DEF LocksI, Locks, Opened, Serving
    <3>3. ~Has(i, g) /\ from[i][g] = NoBuild /\ g \notin sizes[i] /\ foreign[i][g] = NoBuild
      BY <2>1 DEF EmptyI, Empty, Fresh
    <3>4. Mine(i) # NoBuild
      BY MineT DEF DiskStoreAssumption
    <3>5. ~Has(k, g)' /\ from'[k][g] = NoBuild /\ g \notin sizes'[k] /\ foreign'[k][g] = NoBuild /\ Mine(k)' # NoBuild
      BY <2>1, <2>4, <3>1, <3>3, <3>4 DEF Has, Mine
    <3>6. Fresh(k)' /\ ~Renamed(k, g)' /\ ~Moves(k, g)'
      BY <2>1, <2>4, <3>1, <3>2 DEF Fresh, Renamed, Moves
    <3> QED
      BY <3>5, <3>6, KnownFresh
  <2> QED
    BY <2>3, <2>4
<1>3. CASE LockRefused(i)
  BY <1>3 DEF KnownI, LockRefused, Fresh, Goes, Has, Known, Mine, Moves, NoFile, Opened, Renamed, files, ghosts, io, store
<1>4. CASE KeepIdentity(i)
  BY <1>4 DEF TypeOK, KnownI, KeepIdentity, Begins, Directories, Fresh, Has, Known, Mine, Moves, NoFile, Opened, Renamed, files, ghosts, io, store
<1>5. ASSUME NEW d \in Instances, SweepNext(i, d) PROVE KnownI'
  BY <1>5 DEF DiskStoreAssumption, KnownI, SweepNext, Adopts, Files, Fresh, Has, Known, Mine, Moves, NoFile, Opened, Renamed, SweepsOn, files,
     ghosts, io, store
<1>6. ASSUME NEW d \in Instances, SweepPasses(i, d) PROVE KnownI'
  BY <1>6 DEF KnownI, SweepPasses, Fresh, Has, Known, Mine, Moves, NoFile, Opened, Renamed, SweepsOn, files, ghosts, io, store
<1>7. CASE SweepEnd(i)
  BY <1>7 DEF KnownI, SweepEnd, Fresh, Goes, Has, Known, Mine, Moves, NoFile, Opened, Renamed, files, ghosts, io, store
<1>8. ASSUME NEW e \in Entries, AdoptLeaves(i, e) PROVE KnownI'
  BY SMTT(60), <1>8 DEF DiskStoreAssumption, TypeOK, KnownI, AdoptLeaves, Adopts, Empty, EmptyI, Fresh, Has, Known, Locks, LocksI, Look, Looks, Marked, Mine,
     Moves, NoFile, Opened, Owner, Passes, Renamed, Serving, Wrote, files, ghosts, io, store
<1>9. ASSUME NEW e \in Entries, AdoptPasses(i, e) PROVE KnownI'
  <2> SUFFICES ASSUME NEW k \in Instances, NEW g \in Entries PROVE Known(k, g)'
    BY DEF KnownI
  <2>0. Known(k, g)
    BY DEF KnownI
  <2> DEFINE d == look[i].at
  <2>1. /\ UNCHANGED <<dir, from, srv, sizes, foreign, put>> /\ look[i].phase = "adopt" /\ d \in Instances
        /\ (k # i => look'[k] = look[k]) /\ look'[i].phase = look[i].phase
    BY <1>9, AdoptPassesE
  <2>2. look'[k].sweep = look[k].sweep
    BY <1>9, AdoptPassesE
  <2>3. ~Opened(d)
    BY <1>9, <2>1, LookingE DEF AdoptPasses, Looks
  <2>4. kv'[k][g] = IF k = d /\ g = e THEN Standing(d, e) ELSE kv[k][g]
    BY <1>9, AdoptPassesE
  <2>5. (Opened(k)' <=> Opened(k)) /\ (Fresh(k)' <=> Fresh(k)) /\ (Moves(k, g)' <=> Moves(k, g)) /\ Mine(k)' = Mine(k) /\ (Renamed(k, g)' <=> Renamed(k, g))
        /\ (Moves(k, g) => look'[k].as = look[k].as)
    BY <2>1, <2>2 DEF Opened, Fresh, Moves, Mine, Renamed
  <2>6. CASE k = d
    BY <2>3, <2>5, <2>6 DEF Known
  <2>7. CASE k # d
    BY <2>0, <2>1, <2>4, <2>5, <2>7, KnownFrame DEF Has
  <2> QED
    BY <2>6, <2>7
<1>10. ASSUME NEW e \in Entries, AdoptTakes(i, e) PROVE KnownI'
  <2> SUFFICES ASSUME NEW k \in Instances, NEW g \in Entries PROVE Known(k, g)'
    BY DEF KnownI
  <2>0. Known(k, g)
    BY DEF KnownI
  <2> DEFINE d == look[i].at  as == TakenAs(i, d, e)
  <2>1. /\ UNCHANGED <<dir, srv, sizes, foreign, put>> /\ look[i].phase = "adopt" /\ d \in Instances /\ Readable(d, e) /\ Standing(d, e) = WholeFor(as)
        /\ (k # i => look'[k] = look[k]) /\ look'[i].phase = "move" /\ look'[i].sweep = look[i].sweep /\ look'[i].as = as /\ look'[i].mv = e
        /\ (as = Mine(i) \/ dir[i].there)
    BY <1>10, AdoptTakesE
  <2>2. d # i /\ ~Opened(d) /\ Opened(i)
    BY <1>10, <2>1, LookingE DEF AdoptTakes, Looks
  <2>3. as # NoBuild
    BY MineT DEF TakenAs, DiskStoreAssumption
  <2>4. Has(d, e) /\ ~Has(i, e)
    <3>1. WholeFor(as) # NoFile
      BY <2>3, WholeIsFile
    <3>2. Has(d, e)
      BY <2>1, <3>1, StandingE DEF Has
    <3> QED
      BY <2>1, <2>2, <3>2 DEF OnceI, Once
  <2>5. /\ kv'[k][g] = IF k = d /\ g = e THEN WholeFor(as) ELSE kv[k][g]
        /\ from'[k][g] = IF k = i /\ g = e /\ as # Mine(i) THEN as ELSE from[k][g]
    <3>1. kv'[k][g] = IF k = d /\ g = e THEN WholeFor(as) ELSE kv[k][g]
      BY <1>10, AdoptTakesF
    <3>2. from'[k][g] = IF k = i /\ g = e /\ as # Mine(i) THEN as ELSE from[k][g]
      BY <1>10, AdoptTakesF
    <3> QED
      BY <3>1, <3>2
  <2> HIDE DEF as
  <2>6. (Opened(k)' <=> Opened(k)) /\ (Fresh(k)' <=> Fresh(k)) /\ Mine(k)' = Mine(k) /\ (Renamed(k, g)' <=> Renamed(k, g))
    BY <2>1 DEF Opened, Fresh, Mine, Renamed
  <2>7. CASE k = d
    BY <2>2, <2>6, <2>7 DEF Known
  <2>8. CASE k # d /\ k # i
    <3>1. (Moves(k, g)' <=> Moves(k, g)) /\ (Moves(k, g) => look'[k].as = look[k].as) /\ (Has(k, g)' <=> Has(k, g))
      BY <2>1, <2>5, <2>8 DEF Moves, Mine, Has
    <3> QED
      BY <2>0, <2>1, <2>5, <2>6, <2>8, <3>1, KnownFrame
  <2>9. CASE k = i /\ g # e
    <3>1. ~Moves(k, g)' /\ ~Moves(k, g) /\ (Has(k, g)' <=> Has(k, g))
      BY <2>1, <2>2, <2>5, <2>9 DEF Moves, Has
    <3> QED
      BY <2>0, <2>1, <2>5, <2>6, <2>9, <3>1, KnownFrame
  <2>10. CASE k = i /\ g = e
    <3>1. ~Has(k, g)' /\ ~Has(k, g)
      BY <2>2, <2>4, <2>5, <2>10 DEF Has
    <3>2. ~Moves(k, g) /\ (Moves(k, g)' <=> as # Mine(i) /\ dir[i].there)
      BY <2>1, <2>10 DEF Moves, Mine
    <3>3. from'[k][g] = IF Moves(k, g)' THEN look'[k].as ELSE NoBuild
      BY <2>0, <2>1, <2>2, <2>5, <2>10, <3>1, <3>2 DEF Known
    <3> QED
      BY <2>0, <2>1, <2>6, <2>10, <3>1, <3>3 DEF Known
  <2> QED
    BY <2>7, <2>8, <2>9, <2>10
<1>11. CASE AdoptMove(i)
  <2> SUFFICES ASSUME NEW k \in Instances, NEW g \in Entries PROVE Known(k, g)'
    BY DEF KnownI
  <2>0. Known(k, g)
    BY DEF KnownI
  <2> DEFINE d == look[i].at  e == look[i].mv
  <2>1. /\ UNCHANGED <<dir, from, srv, put>> /\ d \in Instances /\ e \in Entries /\ look[i].phase = "move" /\ Has(d, e) /\ (\A c \in Instances : c # i => look'[c] = look[c])
        /\ look'[i].phase \in {"adopt", "beside"} /\ look'[i].sweep = look[i].sweep
    BY ZenonT(60), <1>11, AdoptMoveE DEF Has
  <2>2. d # i /\ ~Opened(d) /\ Opened(i)
    BY <1>11, LookingE DEF AdoptMove
  <2>3. /\ kv'[k][g] = IF k = d /\ g = e THEN NoFile ELSE IF k = i /\ g = e THEN kv[d][e] ELSE kv[k][g]
        /\ g \in sizes'[k] <=> g \in sizes[k] \/ (k = i /\ g = e)
        /\ foreign'[k][g] = IF k = i /\ g = e THEN (IF look[i].as = Mine(i) THEN NoBuild ELSE look[i].as) ELSE foreign[k][g]
    BY <1>11, AdoptMoveF
  <2>4. (Opened(k)' <=> Opened(k)) /\ (Fresh(k)' <=> Fresh(k)) /\ (Renamed(k, g)' <=> Renamed(k, g)) /\ Mine(k)' = Mine(k)
    BY <2>1 DEF Opened, Fresh, Renamed, Mine
  <2>5. CASE k = d
    BY <2>2, <2>4, <2>5 DEF Known
  <2>6. CASE k # d /\ k # i
    <3>1. (Has(k, g)' <=> Has(k, g)) /\ (Moves(k, g)' <=> Moves(k, g)) /\ look'[k].as = look[k].as
      BY <2>1, <2>3, <2>6 DEF Has, Moves, Mine
    <3> QED
      BY <2>0, <2>1, <2>3, <2>4, <2>6, <3>1, KnownFrame
  <2>7. CASE k = i /\ g # e
    <3>1. (Has(k, g)' <=> Has(k, g)) /\ ~Moves(k, g)' /\ ~Moves(k, g)
      BY <2>1, <2>2, <2>3, <2>7 DEF Has, Moves
    <3> QED
      BY <2>0, <2>1, <2>3, <2>4, <2>7, <3>1, KnownFrame
  <2>8. CASE k = i /\ g = e
    <3>1. Has(k, g)' /\ g \in sizes'[k] /\ foreign'[k][g] = IF look[i].as = Mine(i) THEN NoBuild ELSE look[i].as
      BY <2>1, <2>2, <2>3, <2>8 DEF Has
    <3>2. ~Has(i, e) /\ look[i].as # NoBuild
      BY <2>1 DEF MovingI, Moving
    <3>3. dir[i].there
      BY <1>11 DEF AdoptMove
    <3>4. Mine(i) # NoBuild
      BY MineT DEF DiskStoreAssumption
    <3>5. look[i].as # Mine(i) => from[i][e] = look[i].as
      BY <2>0, <2>1, <2>2, <2>8, <3>2, <3>3 DEF Known, Moves
    <3> QED
      BY <2>0, <2>1, <2>4, <2>8, <3>1, <3>4, <3>5 DEF Known
  <2> QED
    BY <2>5, <2>6, <2>7, <2>8
<1>12. CASE AdoptMoveFails(i)
  <2> SUFFICES ASSUME NEW k \in Instances, NEW g \in Entries PROVE Known(k, g)'
    BY DEF KnownI
  <2>0. Known(k, g)
    BY DEF KnownI
  <2> DEFINE e == look[i].mv
  <2>1. /\ UNCHANGED <<dir, kv, srv, sizes, foreign, put>> /\ look[i].phase = "move" /\ look[i].at # Nobody /\ e \in Entries
        /\ from' = [from EXCEPT ![i][e] = NoBuild] /\ from \in [Instances -> [Entries -> Build]]
        /\ look' = [look EXCEPT ![i] = [look[i] EXCEPT !.phase = "adopt", !.todo = @ \ {e}, !.retain = TRUE]] /\ look \in [Instances -> Look]
    BY <1>12, LookedT DEF AdoptMoveFails, TypeOK, store, io
  <2>2. from'[k][g] = IF k = i /\ g = e THEN NoBuild ELSE from[k][g]
    BY <2>1
  <2>3. (k # i => look'[k] = look[k]) /\ look'[i].phase = "adopt" /\ look'[i].sweep = look[i].sweep
    BY <2>1 DEF Look
  <2>4. (Opened(k)' <=> Opened(k)) /\ (Fresh(k)' <=> Fresh(k)) /\ (Renamed(k, g)' <=> Renamed(k, g)) /\ Mine(k)' = Mine(k) /\ (Has(k, g)' <=> Has(k, g))
    BY <2>1, <2>3 DEF Opened, Fresh, Renamed, Mine, Has
  <2>5. k = i => ~Moves(k, g)'
    BY <2>3 DEF Moves
  <2>6. CASE k = i /\ g = e
    <3>1. ~Has(i, e)
      BY <2>1 DEF MovingI, Moving
    <3> QED
      BY <2>0, <2>1, <2>2, <2>4, <2>5, <2>6, <3>1 DEF Known
  <2>7. CASE k # i \/ g # e
    <3>1. Moves(k, g)' <=> Moves(k, g)
      BY <2>1, <2>3, <2>5, <2>7 DEF Moves, Mine
    <3>2. Moves(k, g) => look'[k].as = look[k].as
      BY <2>1, <2>3, <2>7 DEF Moves
    <3> QED
      BY <2>0, <2>1, <2>2, <2>4, <2>7, <3>1, <3>2, KnownFrame
  <2> QED
    BY <2>6, <2>7
<1>13. CASE AdoptBeside(i)
  <2> SUFFICES ASSUME NEW k \in Instances, NEW g \in Entries PROVE Known(k, g)'
    BY DEF KnownI
  <2>0. Known(k, g)
    BY DEF KnownI
  <2> DEFINE d == look[i].at  e == look[i].mv
  <2>1. /\ UNCHANGED <<dir, kv, srv, sizes, foreign, put>> /\ look[i].phase = "beside" /\ look[i].at # Nobody /\ e \in Entries
        /\ from' = [from EXCEPT ![d][e] = NoBuild] /\ from \in [Instances -> [Entries -> Build]]
        /\ look' = [look EXCEPT ![i] = [look[i] EXCEPT !.phase = "adopt", !.todo = @ \ {e}]] /\ look \in [Instances -> Look]
    BY <1>13, LookedT DEF AdoptBeside, TypeOK, store, io
  <2>2. d \in Instances /\ ~Opened(d)
    BY <2>1, LookingE
  <2>3. from'[k][g] = IF k = d /\ g = e THEN NoBuild ELSE from[k][g]
    BY <2>1, <2>2
  <2>4. (k # i => look'[k] = look[k]) /\ look'[i].phase = "adopt" /\ look'[i].sweep = look[i].sweep
    BY <2>1 DEF Look
  <2>5. (Opened(k)' <=> Opened(k)) /\ (Fresh(k)' <=> Fresh(k)) /\ (Renamed(k, g)' <=> Renamed(k, g)) /\ Mine(k)' = Mine(k) /\ (Has(k, g)' <=> Has(k, g))
    BY <2>1, <2>4 DEF Opened, Fresh, Renamed, Mine, Has
  <2>6. (Moves(k, g)' <=> Moves(k, g)) /\ (Moves(k, g) => look'[k].as = look[k].as)
    BY <2>1, <2>4 DEF Moves, Mine
  <2>7. CASE k = d
    BY <2>2, <2>5, <2>7 DEF Known
  <2>8. CASE k # d
    BY <2>0, <2>1, <2>3, <2>5, <2>6, <2>8, KnownFrame
  <2> QED
    BY <2>7, <2>8
<1>14. CASE SweepLeave(i)
  BY <1>14 DEF DiskStoreAssumption, TypeOK, KnownI, SweepLeave, Adopts, Fresh, Has, Known, LookEnded, Mine, Moves, NoFile, NoLook, Opened, Renamed,
     Spared, SweepDone, files, ghosts, io, store
<1>15. CASE SweepCondemn(i)
  BY SMTT(60), <1>15 DEF DiskStoreAssumption, TypeOK, KnownI, SweepCondemn, Adopts, Directory, Empty, EmptyI, Fresh, Has, Known, Locks, LocksI, Look,
     LookEnded, Mine, Moves, NoFile, NoLook, Opened, Renamed, Serving, Spared, SweepDone, files, ghosts, io, store
<1>16. CASE SweepRemove(i)
  BY SMTT(60), <1>16 DEF DiskStoreAssumption, TypeOK, KnownI, SweepRemove, Fresh, Has, Known, LookEnded, Mine, Moves, NoDirectory, NoFile, NoFiles, NoLook,
     Opened, RemovedAll, Renamed, Unmarked, ghosts, io, store
<1>17. ASSUME NEW e \in Entries, Cancel(i, e) PROVE KnownI'
  BY <1>17 DEF KnownI, Cancel, Cancelled, Fresh, Has, IsPut, Known, Mine, Moves, NoFile, Opened, Puts, Renamed, files, ghosts, store
<1>18. ASSUME NEW e \in Entries, Evict(i, e) PROVE KnownI'
  <2>1. ~Renamed(i, e)
    BY <1>18, EvictE, TouchedE DEF Touches
  <2>2. \A k \in Instances, g \in Entries : Renamed(k, g)' <=> Renamed(k, g)
    BY <1>18, WorkE, SameWorkE
  <2>3. Serving(i) /\ Removed(i, e) /\ Forgotten(i, e) /\ UNCHANGED <<dir, srv, look>>
    BY <1>18, EvictE DEF Serving
  <2> QED
    BY <2>1, <2>2, <2>3, KnownDrop
<1>19. CASE OpenBad(i)
  <2>1. ~Renamed(i, stream[i].e)
    BY <1>19, OpenBadE, TouchedE DEF Touches
  <2>2. \A k \in Instances, g \in Entries : Renamed(k, g)' <=> Renamed(k, g)
    BY <1>19, OpenBadE DEF Renamed
  <2> QED
    BY <1>19, <2>1, <2>2, OpenBadE, KnownDrop
<1>20. CASE ReadBad(i)
  <2>1. ~Renamed(i, read[i].job.e)
    BY <1>20, DroppedE, TouchedE DEF Touches
  <2>2. \A k \in Instances, g \in Entries : Renamed(k, g)' <=> Renamed(k, g)
    BY <1>20, DroppedE DEF Renamed
  <2> QED
    BY <1>20, <2>1, <2>2, DroppedE, KnownDrop
<1>21. CASE RewriteField(i)
  <2> SUFFICES ASSUME NEW k \in Instances, NEW g \in Entries PROVE Known(k, g)'
    BY DEF KnownI
  <2>0. Known(k, g)
    BY DEF KnownI
  <2> DEFINE e == read[i].job.e
  <2>1. UNCHANGED <<dir, from, srv, sizes, foreign, put, look>> /\ read[i].at = "field" /\ e \in Entries
    BY <1>21, RewriteFieldE
  <2>2. kv'[k][g] = IF k = i /\ g = e THEN [f |-> Mine(i), s |-> kv[i][e].s] ELSE kv[k][g]
    BY <1>21, RewriteFieldE
  <2>3. kv[i][e] # NoFile
    <3>1. kv[i][e].f = read[i].theirs
      BY <1>21, RewriteFieldE
    <3>2. read[i].theirs # NoBuild
      BY <2>1 DEF ClaimingI, Claiming
    <3> QED
      BY <3>1, <3>2 DEF NoFile
  <2>4. Mine(i) # NoBuild
    BY MineT DEF DiskStoreAssumption
  <2>5. [f |-> Mine(i), s |-> kv[i][e].s] # NoFile
    BY <2>4 DEF NoFile
  <2>6. Has(k, g)' <=> Has(k, g)
    BY <2>2, <2>3, <2>5 DEF Has
  <2> QED
    BY <2>0, <2>1, <2>6, KnownFrame DEF Opened, Fresh, Renamed, Moves, Mine
<1>22. CASE RewriteSum(i)
  <2> SUFFICES ASSUME NEW k \in Instances, NEW g \in Entries PROVE Known(k, g)'
    BY DEF KnownI
  <2>0. Known(k, g)
    BY DEF KnownI
  <2>1. UNCHANGED <<dir, from, srv, sizes, foreign, put, look>>
    BY <1>22, RewriteSumE
  <2>2. kv'[k][g] = IF k = i /\ g = read[i].job.e /\ kv[k][g] # NoFile THEN WholeFor(Mine(i)) ELSE kv[k][g]
    BY <1>22, RewriteSumE
  <2>3. WholeFor(Mine(i)) # NoFile
    BY MineT, WholeIsFile DEF DiskStoreAssumption
  <2>4. Has(k, g)' <=> Has(k, g)
    BY <2>2, <2>3 DEF Has
  <2> QED
    BY <2>0, <2>1, <2>4, KnownFrame DEF Opened, Fresh, Renamed, Moves, Mine
<1>23. CASE RewriteBeside(i)
  <2> SUFFICES ASSUME NEW k \in Instances, NEW g \in Entries PROVE Known(k, g)'
    BY DEF KnownI
  <2>0. Known(k, g)
    BY DEF KnownI
  <2> DEFINE e == read[i].job.e
  <2>1. /\ UNCHANGED <<dir, kv, srv, sizes, put, look>> /\ Serving(i) /\ e \in Entries
        /\ from' = [from EXCEPT ![i][e] = NoBuild] /\ foreign' = [foreign EXCEPT ![i][e] = NoBuild]
        /\ from \in [Instances -> [Entries -> Build]] /\ foreign \in [Instances -> [Entries -> Build]]
    BY <1>23, JobT DEF RewriteBeside, Rewriting, TypeOK
  <2>2. from'[k][g] = (IF k = i /\ g = e THEN NoBuild ELSE from[k][g]) /\ foreign'[k][g] = (IF k = i /\ g = e THEN NoBuild ELSE foreign[k][g])
    BY <2>1
  <2>3. (Opened(k)' <=> Opened(k)) /\ (Fresh(k)' <=> Fresh(k)) /\ (Moves(k, g)' <=> Moves(k, g)) /\ Mine(k)' = Mine(k) /\ (Renamed(k, g)' <=> Renamed(k, g)) /\ (Has(k, g)' <=> Has(k, g))
    BY <2>1 DEF Opened, Fresh, Moves, Mine, Renamed, Has
  <2>4. Mine(k) # NoBuild
    BY MineT DEF DiskStoreAssumption
  <2>5. ~Moves(i, g)
    BY <2>1, ServingE
  <2>6. CASE k = i /\ g = e
    BY <2>0, <2>1, <2>2, <2>3, <2>4, <2>5, <2>6 DEF Known
  <2>7. CASE ~(k = i /\ g = e)
    BY <2>0, <2>1, <2>2, <2>3, <2>7 DEF Known
  <2> QED
    BY <2>6, <2>7
<1>24. CASE ClaimLost(i)
  <2>1. ~Renamed(i, read[i].job.e)
    BY <1>24, DroppedE, TouchedE DEF Touches
  <2>2. \A k \in Instances, g \in Entries : Renamed(k, g)' <=> Renamed(k, g)
    BY <1>24, DroppedE DEF Renamed
  <2> QED
    BY <1>24, <2>1, <2>2, DroppedE, KnownDrop
<1>25. CASE ClaimKept(i)
  <2> SUFFICES ASSUME NEW k \in Instances, NEW g \in Entries PROVE Known(k, g)'
    BY DEF KnownI
  <2>0. Known(k, g)
    BY DEF KnownI
  <2> DEFINE e == read[i].job.e
  <2>1. UNCHANGED <<dir, from, srv, sizes, put, look>> /\ kv[i][e] # NoFile /\ ClaimedBy(i) # NoBuild
    BY <1>25, ClaimKeptE
  <2>2. /\ kv'[k][g] = IF k = i /\ g = e THEN WholeFor(ClaimedBy(i)) ELSE kv[k][g]
        /\ foreign'[k][g] = IF k = i /\ g = e /\ ClaimedBy(i) = Mine(i) THEN NoBuild ELSE foreign[k][g]
    BY <1>25, ClaimKeptE
  <2>3. WholeFor(ClaimedBy(i)) # NoFile
    BY <2>1, WholeIsFile
  <2>4. Has(k, g)' <=> Has(k, g)
    BY <2>1, <2>2, <2>3 DEF Has
  <2>5. foreign'[k][g] \in {NoBuild, foreign[k][g]}
    BY <2>2
  <2>6. Mine(k) # NoBuild
    BY MineT DEF DiskStoreAssumption
  <2>7. (Opened(k)' <=> Opened(k)) /\ (Fresh(k)' <=> Fresh(k)) /\ (Moves(k, g)' <=> Moves(k, g)) /\ Mine(k)' = Mine(k) /\ (Renamed(k, g)' <=> Renamed(k, g))
    BY <2>1 DEF Opened, Fresh, Moves, Mine, Renamed
  <2> QED
    BY <2>0, <2>1, <2>4, <2>5, <2>6, <2>7 DEF Known
<1>26. CASE TakePut(i)
  <2> SUFFICES ASSUME NEW k \in Instances, NEW g \in Entries PROVE Known(k, g)'
    BY DEF KnownI
  <2>0. Known(k, g)
    BY DEF KnownI
  <2>1. /\ UNCHANGED <<kv, from, srv, sizes, foreign, look>> /\ dir'[k].there = dir[k].there /\ dir'[k].id = dir[k].id
        /\ (k # i => put'[k] = put[k]) /\ put[i].at = "none" /\ put'[i].at = "tmp"
    BY <1>26, TakePutE
  <2>2. (Opened(k)' <=> Opened(k)) /\ (Fresh(k)' <=> Fresh(k)) /\ (Moves(k, g)' <=> Moves(k, g)) /\ Mine(k)' = Mine(k)
    BY <2>1 DEF Opened, Fresh, Moves, Mine
  <2>3. (Renamed(k, g)' <=> Renamed(k, g)) /\ (Has(k, g)' <=> Has(k, g))
    BY <2>1 DEF Renamed, Has
  <2> QED
    BY <2>0, <2>1, <2>2, <2>3 DEF Known
<1>27. CASE PutWrite(i)
  BY <1>27 DEF KnownI, PutWrite, Fresh, Has, Idle, Known, Mine, Moves, NoFile, Opened, Renamed, Serving, files, ghosts, store
<1>28. CASE PutRename(i)
  <2> SUFFICES ASSUME NEW k \in Instances, NEW g \in Entries PROVE Known(k, g)'
    BY DEF KnownI
  <2>0. Known(k, g)
    BY DEF KnownI
  <2> DEFINE e == put[i].job.e
  <2>1. /\ UNCHANGED <<from, srv, sizes, foreign, look>> /\ Serving(i) /\ e \in Entries /\ put[i].at = "synced"
        /\ dir'[k].there = dir[k].there /\ dir'[k].id = dir[k].id
        /\ (k # i => put'[k] = put[k]) /\ put'[i].at = "renamed" /\ put'[i].job = put[i].job
    BY <1>28, PutRenameE
  <2>2. kv'[k][g] = IF k = i /\ g = e THEN WholeFor(Mine(i)) ELSE kv[k][g]
    BY <1>28, PutRenameE
  <2>3. (Opened(k)' <=> Opened(k)) /\ (Fresh(k)' <=> Fresh(k)) /\ (Moves(k, g)' <=> Moves(k, g)) /\ Mine(k)' = Mine(k)
    BY <2>1 DEF Opened, Fresh, Moves, Mine
  <2>4. WholeFor(Mine(i)) # NoFile
    BY MineT, WholeIsFile DEF DiskStoreAssumption
  <2>5. CASE k = i /\ g = e
    <3>1. Puts(i, e) /\ e \notin sizes[i]
      BY <2>1 DEF PutI, OnePut, Puts, Touches
    <3>2. foreign[i][e] = NoBuild
      BY <2>0, <2>1, <2>5, <3>1, ServingE DEF Known
    <3>3. Has(k, g)' /\ Renamed(k, g)'
      BY <2>1, <2>2, <2>4, <2>5 DEF Has, Renamed
    <3> QED
      BY <2>0, <2>1, <2>3, <2>5, <3>2, <3>3 DEF Known
  <2>6. CASE ~(k = i /\ g = e)
    <3>1. (Has(k, g)' <=> Has(k, g)) /\ (Renamed(k, g)' <=> Renamed(k, g))
      BY <2>1, <2>2, <2>6 DEF Has, Renamed
    <3> QED
      BY <2>0, <2>1, <2>3, <3>1 DEF Known
  <2> QED
    BY <2>5, <2>6
<1>29. CASE PutFails(i)
  BY <1>29 DEF DiskStoreAssumption, KnownI, PutFails, Fresh, Has, Idle, Known, Mine, Moves, NoFile, NoWrite, Opened, Renamed, Serving, Untemped,
     WriteEnds, files, ghosts, store
<1>30. CASE PutCommit(i)
  BY SMTT(60), <1>30 DEF DiskStoreAssumption, TypeOK, KnownI, PutCommit, Fresh, Has, Idle, Known, Mine, Moves, NoFile, NoWrite, Opened, Renamed, Serving,
     WriteEnds
<1>31. CASE PutCancelled(i)
  <2> SUFFICES ASSUME NEW k \in Instances, NEW g \in Entries PROVE Known(k, g)'
    BY DEF KnownI
  <2>0. Known(k, g)
    BY DEF KnownI
  <2> DEFINE e == put[i].job.e
  <2>1. /\ UNCHANGED <<dir, srv, sizes, foreign, look>> /\ Serving(i) /\ e \in Entries /\ put[i].at = "renamed" /\ Removed(i, e)
        /\ put' = [put EXCEPT ![i] = NoWrite] /\ put \in [Instances -> Write]
    BY <1>31, JobT DEF PutCancelled, Idle, WriteEnds, TypeOK, store
  <2>2. kv'[k][g] = (IF k = i /\ g = e THEN NoFile ELSE kv[k][g]) /\ from'[k][g] = (IF k = i /\ g = e THEN NoBuild ELSE from[k][g])
    BY <2>1, RemovedE
  <2>3. (k # i => put'[k] = put[k]) /\ put'[i].at = "none"
    BY <2>1 DEF NoWrite
  <2>4. (Opened(k)' <=> Opened(k)) /\ (Fresh(k)' <=> Fresh(k)) /\ (Moves(k, g)' <=> Moves(k, g)) /\ Mine(k)' = Mine(k)
    BY <2>1 DEF Opened, Fresh, Moves, Mine
  <2>5. CASE k = i /\ g = e
    <3>1. Puts(i, e) /\ e \notin sizes[i]
      BY <2>1 DEF PutI, OnePut, Puts, Touches
    <3>2. foreign[i][e] = NoBuild
      BY <2>0, <2>1, <2>5, <3>1, ServingE DEF Known
    <3>3. ~Has(k, g)' /\ from'[k][g] = NoBuild /\ ~Renamed(k, g)' /\ ~Moves(k, g)
      BY <2>1, <2>2, <2>3, <2>5, ServingE DEF Has, Renamed
    <3> QED
      BY <2>0, <2>1, <2>4, <2>5, <3>1, <3>2, <3>3 DEF Known
  <2>6. CASE ~(k = i /\ g = e)
    <3>1. (Has(k, g)' <=> Has(k, g)) /\ (Renamed(k, g)' <=> Renamed(k, g)) /\ from'[k][g] = from[k][g]
      BY <2>1, <2>2, <2>3, <2>6 DEF Has, Renamed
    <3> QED
      BY <2>0, <2>1, <2>4, <3>1 DEF Known
  <2> QED
    BY <2>5, <2>6
<1>32. CASE IdleSweep(i)
  BY <1>32 DEF KnownI, IdleSweep, Begins, Directories, Fresh, Has, Idle, Known, Mine, Moves, NoFile, Opened, Renamed, Serving, files, ghosts, io,
     store
<1>33. CASE Stop(i)
  BY <1>33 DEF KnownI, Stop, Fresh, Goes, Has, Known, Mine, Moves, NoFile, Opened, Renamed, files, ghosts, store
<1>34. CASE Leave(i)
  BY <1>34 DEF TypeOK, KnownI, Leave, Fresh, Goes, Has, Idle, Known, Memory, Mine, Moves, NoFile, NoLook, NoRead, NoStream, NoWrite, Opened,
     Renamed, Serving, Unmarked, files, ghosts
<1>35. CASE RemoveOwn(i)
  BY <1>35 DEF KnownI, RemoveOwn, Fresh, Goes, Has, Known, Mine, Moves, NoDirectory, NoFile, NoFiles, Opened, RemovedAll, Renamed, Unmarked, ghosts,
     io, store
<1>36. CASE Kill(i)
  <2> SUFFICES ASSUME NEW k \in Instances, NEW g \in Entries PROVE Known(k, g)'
    BY DEF KnownI
  <2>0. Known(k, g)
    BY DEF KnownI
  <2>1. UNCHANGED <<kv, from>> /\ dir'[k].there = dir[k].there /\ dir'[k].id = dir[k].id /\ srv'[i].pc = "ended"
        /\ (k # i => srv'[k] = srv[k] /\ sizes'[k] = sizes[k] /\ foreign'[k] = foreign[k] /\ put'[k] = put[k] /\ look'[k] = look[k])
    BY <1>36, KillE
  <2>2. CASE k = i
    BY <2>1, <2>2 DEF Known, Opened
  <2>3. CASE k # i
    BY <2>0, <2>1, <2>3, KnownFrame DEF Opened, Fresh, Renamed, Moves, Mine, Has
  <2> QED
    BY <2>2, <2>3
<1>37. CASE OpenWhole(i) \/ TakeRead(i) \/ (\E e \in Entries : Put(i, e) \/ Get(i, e) \/ Claim(i, e) \/ OpenEntry(i, e))
  <2>1. UNCHANGED <<dir, srv, look, kv, from, sizes, foreign, put>>
    BY <1>37 DEF Put, Get, Claim, OpenEntry, OpenWhole, TakeRead, files, io, store
  <2> QED
    BY <2>1, KnownSame
<1>38. CASE ReadWhole(i) \/ ClaimBegins(i) \/ RewriteSync(i) \/ RewriteFails(i) \/ SettleFails(i) \/ RefusePut(i)
  <2>1. UNCHANGED <<dir, srv, look, kv, from, sizes, foreign, put>>
    BY <1>38 DEF ReadWhole, ClaimBegins, RewriteSync, RewriteFails, SettleFails, RefusePut, files, store
  <2> QED
    BY <2>1, KnownSame
<1> QED
  BY <1>1, <1>2, <1>3, <1>4, <1>5, <1>6, <1>7, <1>8, <1>9, <1>10, <1>11, <1>12, <1>13, <1>14, <1>15, <1>16, <1>17, <1>18, <1>19, <1>20, <1>21,
     <1>22, <1>23, <1>24, <1>25, <1>26, <1>27, <1>28, <1>29, <1>30, <1>31, <1>32, <1>33, <1>34, <1>35, <1>36, <1>37, <1>38 DEF Acts, Start, Sweep,
     Call, ReadIO, ClaimSettle, PutIO, End

\* The steps of a claim, between which anyone may evict, drop or lose the file it is of.
LEMMA ClaimingKept ==
  ASSUME DiskStoreAssumption, TypeOK, LocksI, EmptyI, OnceI, PutI, KnownI, HeadedI, ClaimingI, MovingI, NEW i \in Instances, Acts(i)
  PROVE  ClaimingI'
<1>1. CASE MakeDirectory(i)
  <2>1. \A k \in Instances : Serving(k) => srv'[k].cfg = srv[k].cfg
    BY <1>1, MakeDirectoryE DEF Serving
  <2> QED
    BY <1>1, <2>1, MakeDirectoryE, ClaimingSame
<1>2. CASE TakeLock(i)
  <2>1. \A k \in Instances : srv'[k].cfg = srv[k].cfg
    BY <1>2, GoesE DEF TakeLock
  <2>2. UNCHANGED <<kv, disk, foreign, read, weak>>
    BY <1>2 DEF TakeLock, files, store, io, ghosts
  <2> QED
    BY <2>1, <2>2, ClaimingSame
<1>3. CASE LockRefused(i)
  <2>1. \A k \in Instances : srv'[k].cfg = srv[k].cfg
    BY <1>3, GoesE DEF LockRefused
  <2>2. UNCHANGED <<kv, disk, foreign, read, weak>>
    BY <1>3 DEF LockRefused, files, store, io, ghosts
  <2> QED
    BY <2>1, <2>2, ClaimingSame
<1>4. CASE SweepEnd(i)
  <2>1. \A k \in Instances : srv'[k].cfg = srv[k].cfg
    BY <1>4, GoesE DEF SweepEnd
  <2>2. UNCHANGED <<kv, disk, foreign, read, weak>>
    BY <1>4 DEF SweepEnd, files, store, io, ghosts
  <2> QED
    BY <2>1, <2>2, ClaimingSame
<1>5. ASSUME NEW e \in Entries, AdoptPasses(i, e) PROVE ClaimingI'
  <2> SUFFICES ASSUME NEW k \in Instances PROVE Claiming(k)'
    BY DEF ClaimingI
  <2> DEFINE d == look[i].at
  <2>1. d \in Instances /\ look[i].phase = "adopt" /\ UNCHANGED <<srv, read, weak, foreign>>
    BY <1>5, AdoptPassesE
  <2>2. ~Serving(d)
    BY <2>1, LookingE DEF DiskStoreAssumption
  <2>3. \A g \in Entries : Serving(k) => kv'[k][g] = kv[k][g] /\ disk'[k][g] = disk[k][g]
    BY <1>5, <2>2, AdoptPassesE
  <2>4. read[k].job.e \in Entries
    BY JobT
  <2> QED
    BY <2>1, <2>3, <2>4, ClaimingFrame
<1>6. ASSUME NEW e \in Entries, AdoptTakes(i, e) PROVE ClaimingI'
  <2> SUFFICES ASSUME NEW k \in Instances PROVE Claiming(k)'
    BY DEF ClaimingI
  <2> DEFINE d == look[i].at
  <2>1. d \in Instances /\ look[i].phase = "adopt" /\ UNCHANGED <<srv, read, weak, foreign>>
    BY <1>6, AdoptTakesE
  <2>2. ~Serving(d)
    BY <2>1, LookingE DEF DiskStoreAssumption
  <2>3. \A g \in Entries : Serving(k) => kv'[k][g] = kv[k][g] /\ disk'[k][g] = disk[k][g]
    BY <1>6, <2>2, AdoptTakesE
  <2>4. read[k].job.e \in Entries
    BY JobT
  <2> QED
    BY <2>1, <2>3, <2>4, ClaimingFrame
<1>7. CASE AdoptMove(i)
  <2> SUFFICES ASSUME NEW k \in Instances PROVE Claiming(k)'
    BY DEF ClaimingI
  <2> DEFINE d == look[i].at  e == look[i].mv
  <2>1. d \in Instances /\ look[i].phase = "move" /\ UNCHANGED <<srv, read, weak>>
    BY <1>7, AdoptMoveE
  <2>2. ~Serving(i) /\ ~Serving(d)
    BY <2>1, LookingE, ServingE DEF DiskStoreAssumption
  <2>3. \A g \in Entries : Serving(k) => kv'[k][g] = kv[k][g] /\ disk'[k][g] = disk[k][g] /\ foreign'[k][g] = foreign[k][g]
    BY <1>7, <2>2, AdoptMoveF
  <2>4. read[k].job.e \in Entries
    BY JobT
  <2> QED
    BY <2>1, <2>3, <2>4, ClaimingFrame
<1>8. CASE SweepRemove(i)
  <2> SUFFICES ASSUME NEW k \in Instances PROVE Claiming(k)'
    BY DEF ClaimingI
  <2>1. look[i].at \in Instances /\ RemovedAll(look[i].at) /\ UNCHANGED <<srv, read, weak, foreign>>
    BY <1>8, SweepRemoveE
  <2>2. \A g \in Entries : kv'[k][g] # NoFile => kv'[k][g] = kv[k][g] /\ disk'[k][g] = disk[k][g]
    BY <2>1, RemovedAllE
  <2>3. read[k].job.e \in Entries
    BY JobT
  <2> QED
    BY <2>1, <2>2, <2>3, ClaimingFrame
<1>9. ASSUME NEW e \in Entries, Evict(i, e) PROVE ClaimingI'
  <2>1. UNCHANGED <<srv, read, weak>> /\ Removed(i, e) /\ Forgotten(i, e)
    BY <1>9, EvictE
  <2> QED
    BY <2>1, DropsC
<1>10. CASE OpenBad(i)
  <2>1. UNCHANGED <<srv, read, weak>> /\ stream[i].e \in Entries /\ Removed(i, stream[i].e) /\ Forgotten(i, stream[i].e)
    BY <1>10, OpenBadE
  <2> QED
    BY <2>1, DropsC
<1>11. CASE TakeRead(i)
  <2> SUFFICES ASSUME NEW k \in Instances PROVE Claiming(k)'
    BY DEF ClaimingI
  <2>1. UNCHANGED <<kv, disk, foreign, srv, weak>> /\ (k # i => read'[k] = read[k]) /\ (read'[i].at = "check" \/ read'[i] = read[i])
    BY <1>11, TakeReadE
  <2>2. CASE read'[k] = read[k]
    BY <2>1, <2>2, ClaimingFrame
  <2>3. CASE read'[k].at = "check"
    BY <2>3, ClaimingEnds
  <2> QED
    BY <2>1, <2>2, <2>3
<1>12. CASE ReadBad(i)
  <2>1. UNCHANGED <<srv, weak>> /\ read[i].job.e \in Entries /\ Removed(i, read[i].job.e) /\ Forgotten(i, read[i].job.e) /\ (\A k \in Instances : read'[k] = IF k = i THEN NoRead ELSE read[k])
    BY <1>12, DroppedE
  <2>2. \A k \in Instances : read'[k] = read[k] \/ read'[k] = NoRead
    BY <2>1
  <2> QED
    BY <2>1, <2>2, DropsC
<1>13. CASE ReadWhole(i)
  <2> SUFFICES ASSUME NEW k \in Instances PROVE Claiming(k)'
    BY DEF ClaimingI
  <2>1. UNCHANGED <<kv, disk, foreign, srv, weak>> /\ read' = [read EXCEPT ![i] = NoRead] /\ read \in [Instances -> Read]
    BY <1>13 DEF ReadWhole, ReadEnds, TypeOK, files, store, ghosts
  <2>2. CASE k # i
    BY <2>1, <2>2, ClaimingFrame
  <2>3. CASE k = i
    BY <2>1, <2>3, ClaimingEnds DEF NoRead
  <2> QED
    BY <2>2, <2>3
<1>14. CASE ClaimBegins(i)
  <2> SUFFICES ASSUME NEW k \in Instances PROVE Claiming(k)'
    BY DEF ClaimingI
  <2> DEFINE e == read[i].job.e
  <2>1. UNCHANGED <<kv, disk, foreign, srv, weak>> /\ read' = [read EXCEPT ![i] = [read[i] EXCEPT !.at = "field", !.theirs = foreign[i][e]]] /\ read \in [Instances -> Read]
    BY <1>14 DEF ClaimBegins, TypeOK, files, store, ghosts
  <2>2. CASE k # i
    BY <2>1, <2>2, ClaimingFrame
  <2>3. CASE k = i
    <3>1. read'[i].at = "field" /\ read'[i].job = read[i].job /\ read'[i].theirs = foreign[i][e]
      BY <2>1 DEF Read
    <3>2. Serving(i) /\ kv[i][e] = WholeFor(WrittenAs(i, e)) /\ foreign[i][e] # NoBuild /\ read[i].job.kind = "claim"
      BY <1>14 DEF ClaimBegins, Checked, ToClaim
    <3>3. kv[i][e] = WholeFor(foreign[i][e])
      BY <3>2 DEF WrittenAs
    <3>4. foreign[i][e] # Mine(i)
      BY <3>2, JobT, ServingE DEF KnownI, Known
    <3>5. Mine(i)' = Mine(i)
      BY <2>1 DEF Mine
    <3> QED
      BY <2>1, <2>3, <3>1, <3>2, <3>3, <3>4, <3>5 DEF Claiming
  <2> QED
    BY <2>2, <2>3
<1>15. CASE RewriteField(i)
  <2> SUFFICES ASSUME NEW k \in Instances PROVE Claiming(k)'
    BY DEF ClaimingI
  <2> DEFINE e == read[i].job.e
  <2>1. e \in Entries /\ read[i].at = "field" /\ Serving(i) /\ kv[i][e].f = read[i].theirs /\ UNCHANGED <<disk, srv, foreign, weak>>
    BY <1>15, RewriteFieldE
  <2>2. CASE k # i
    <3>1. \A g \in Entries : kv'[k][g] = kv[k][g]
      <4> TAKE g \in Entries
      <4> QED
        BY <1>15, <2>2, RewriteFieldF
    <3>2. read'[k] = read[k] /\ read[k].job.e \in Entries
      BY ZenonT(60), <1>15, <2>2, RewriteFieldE, JobT
    <3> QED
      BY <2>1, <3>1, <3>2, ClaimingFrame
  <2>3. CASE k = i
    <3>1. read[i].job.kind = "claim" /\ read[i].theirs \notin {NoBuild, Mine(i)}
      BY ZenonT(60), <2>1 DEF ClaimingI, Claiming
    <3>2. kv[i][e] # NoFile
      BY <2>1, <3>1 DEF NoFile
    <3>3. foreign[i][e] = read[i].theirs /\ kv[i][e] = WholeFor(read[i].theirs)
      BY ZenonT(60), <2>1, <3>2 DEF ClaimingI, Claiming, Has
    <3>4. from[i][e] = read[i].theirs
      BY <2>1, <3>1, <3>2, <3>3, ServingE DEF KnownI, Known, Has
    <3>5. e \notin weak => disk[i][e] \in {WholeFor(read[i].theirs), NoFile}
      <4>1. Headed(i, e)
        BY <2>1 DEF HeadedI
      <4>2. ~(WholeFor(read[i].theirs) = [f |-> dir[i].id, s |-> read[i].theirs]) \/ dir[i].id = read[i].theirs
        BY DEF WholeFor
      <4> QED
        BY <2>1, <3>1, <3>2, <3>3, <3>4, <4>1 DEF Headed, Has
    <3>6. kv'[i][e] = [f |-> Mine(i), s |-> read[i].theirs]
      BY <1>15, <2>1, <3>3, RewriteFieldE DEF WholeFor
    <3>7. read'[i].at = "sum" /\ read'[i].job = read[i].job /\ read'[i].theirs = read[i].theirs /\ Mine(i)' = Mine(i)
      BY <1>15, RewriteFieldE DEF Mine
    <3> QED
      BY <2>1, <2>3, <3>1, <3>3, <3>5, <3>6, <3>7 DEF Claiming
  <2> QED
    BY <2>2, <2>3
<1>16. CASE RewriteSum(i)
  <2> SUFFICES ASSUME NEW k \in Instances PROVE Claiming(k)'
    BY DEF ClaimingI
  <2> DEFINE e == read[i].job.e
  <2>1. e \in Entries /\ read[i].at = "sum" /\ Serving(i) /\ UNCHANGED <<disk, srv, foreign, weak>>
    BY <1>16, RewriteSumE
  <2>2. CASE k # i
    <3>1. \A g \in Entries : kv'[k][g] = kv[k][g]
      BY <1>16, <2>2, RewriteSumE
    <3>2. read'[k] = read[k] /\ read[k].job.e \in Entries
      BY <1>16, <2>2, RewriteSumE, JobT
    <3> QED
      BY <2>1, <3>1, <3>2, ClaimingFrame
  <2>3. CASE k = i
    <3>1. read[i].job.kind = "claim" /\ read[i].theirs \notin {NoBuild, Mine(i)} /\ (Has(i, e) => foreign[i][e] = read[i].theirs)
      BY ZenonT(60), <2>1 DEF ClaimingI, Claiming
    <3>2. kv'[i][e] = IF kv[i][e] = NoFile THEN NoFile ELSE WholeFor(Mine(i))
      BY <1>16, <2>1, RewriteSumE
    <3>3. read'[i].at = "sync" /\ read'[i].job = read[i].job /\ read'[i].theirs = read[i].theirs /\ Mine(i)' = Mine(i)
      BY <1>16, RewriteSumE DEF Mine
    <3> QED
      BY <2>1, <2>3, <3>1, <3>2, <3>3 DEF Claiming, Has
  <2> QED
    BY <2>2, <2>3
<1>17. CASE RewriteSync(i)
  <2> SUFFICES ASSUME NEW k \in Instances PROVE Claiming(k)'
    BY DEF ClaimingI
  <2> DEFINE e == read[i].job.e
  <2>1. e \in Entries /\ read[i].at = "sync" /\ Serving(i) /\ UNCHANGED <<kv, srv, foreign, weak>> /\ disk' = [disk EXCEPT ![i][e] = kv[i][e]] /\ ReadAt(i, "beside")
    BY <1>17, JobT DEF RewriteSync, Rewriting, store, ghosts
  <2>2. \A c \in Instances, g \in Entries : disk'[c][g] = IF c = i /\ g = e THEN kv[i][e] ELSE disk[c][g]
    <3>1. disk \in [Instances -> [Entries -> Header]]
      BY DEF TypeOK
    <3> QED
      BY <2>1, <3>1
  <2>3. CASE k # i
    <3>1. read'[k] = read[k] /\ read[k].job.e \in Entries
      BY <2>1, <2>3, ReadAtE, JobT
    <3> QED
      BY <2>1, <2>2, <2>3, <3>1, ClaimingFrame
  <2>4. CASE k = i
    <3>1. read'[i].at = "beside" /\ read'[i].job = read[i].job /\ read'[i].theirs = read[i].theirs /\ Mine(i)' = Mine(i)
      BY <2>1, ReadAtE DEF Mine
    <3>2. Claiming(i)
      BY DEF ClaimingI
    <3>3. disk'[i][e] = kv[i][e]
      BY <2>1, <2>2
    <3> QED
      BY <2>1, <2>4, <3>1, <3>2, <3>3 DEF Claiming, Has
  <2> QED
    BY <2>3, <2>4
<1>18. CASE RewriteFails(i)
  <2> SUFFICES ASSUME NEW k \in Instances PROVE Claiming(k)'
    BY DEF ClaimingI
  <2>1. ReadAt(i, "settle") /\ read[i].at \in {"field", "sum", "sync"} /\ weak \subseteq weak' /\ UNCHANGED <<kv, disk, foreign, srv>>
    BY <1>18 DEF RewriteFails, files, store
  <2>2. CASE k # i
    <3>1. read'[k] = read[k]
      BY <2>1, <2>2, ReadAtE
    <3> QED
      BY <2>1, <3>1, ClaimingFrame
  <2>3. CASE k = i
    <3>1. read'[i].at = "settle" /\ read'[i].job = read[i].job /\ read'[i].theirs = read[i].theirs /\ Mine(i)' = Mine(i)
      BY <2>1, ReadAtE DEF Mine
    <3>2. Claiming(i)
      BY DEF ClaimingI
    <3> QED
      BY <2>1, <2>3, <3>1, <3>2 DEF Claiming, Has
  <2> QED
    BY <2>2, <2>3
<1>19. CASE RewriteBeside(i)
  <2> SUFFICES ASSUME NEW k \in Instances PROVE Claiming(k)'
    BY DEF ClaimingI
  <2>1. UNCHANGED <<kv, disk, srv, weak>> /\ read' = [read EXCEPT ![i] = NoRead] /\ foreign' = [foreign EXCEPT ![i][read[i].job.e] = NoBuild]
    BY <1>19 DEF RewriteBeside, ReadEnds, ghosts
  <2>2. CASE k # i
    <3>1. read'[k] = read[k] /\ foreign'[k] = foreign[k]
      BY <2>1, <2>2 DEF TypeOK
    <3> QED
      BY <2>1, <3>1, ClaimingFrame
  <2>3. CASE k = i
    <3>1. read'[k] = NoRead
      BY <2>1, <2>3 DEF TypeOK
    <3> QED
      BY <3>1, ClaimingEnds DEF NoRead
  <2> QED
    BY <2>2, <2>3
<1>20. CASE SettleFails(i)
  <2> SUFFICES ASSUME NEW k \in Instances PROVE Claiming(k)'
    BY DEF ClaimingI
  <2>1. UNCHANGED <<kv, disk, foreign, srv, weak>> /\ read' = [read EXCEPT ![i] = NoRead] /\ read \in [Instances -> Read]
    BY <1>20 DEF SettleFails, ReadEnds, TypeOK, files, store, ghosts
  <2>2. CASE k # i
    BY <2>1, <2>2, ClaimingFrame
  <2>3. CASE k = i
    BY <2>1, <2>3, ClaimingEnds DEF NoRead
  <2> QED
    BY <2>2, <2>3
<1>21. CASE ClaimLost(i)
  <2>1. UNCHANGED <<srv, weak>> /\ read[i].job.e \in Entries /\ Removed(i, read[i].job.e) /\ Forgotten(i, read[i].job.e) /\ (\A k \in Instances : read'[k] = IF k = i THEN NoRead ELSE read[k])
    BY <1>21, DroppedE
  <2>2. \A k \in Instances : read'[k] = read[k] \/ read'[k] = NoRead
    BY <2>1
  <2> QED
    BY <2>1, <2>2, DropsC
<1>22. CASE ClaimKept(i)
  <2> SUFFICES ASSUME NEW k \in Instances PROVE Claiming(k)'
    BY DEF ClaimingI
  <2>1. UNCHANGED <<srv, weak>> /\ read'[k] = IF k = i THEN NoRead ELSE read[k]
    BY <1>22, ClaimKeptE
  <2>2. CASE k # i
    <3>1. \A g \in Entries : kv'[k][g] = kv[k][g] /\ disk'[k][g] = disk[k][g] /\ foreign'[k][g] = foreign[k][g]
      BY <1>22, <2>2, ClaimKeptE
    <3>2. read[k].job.e \in Entries
      BY JobT
    <3> QED
      BY <2>1, <2>2, <3>1, <3>2, ClaimingFrame
  <2>3. CASE k = i
    BY <2>1, <2>3, ClaimingEnds DEF NoRead
  <2> QED
    BY <2>2, <2>3
<1>23. CASE PutRename(i)
  <2> SUFFICES ASSUME NEW k \in Instances PROVE Claiming(k)'
    BY DEF ClaimingI
  <2>1. UNCHANGED <<disk, foreign, read, srv, weak>> /\ read[i].at = "none"
    BY <1>23, PutRenameE
  <2>2. CASE k # i
    <3>1. \A g \in Entries : kv'[k][g] = kv[k][g]
      BY <1>23, <2>2, PutRenameE
    <3>2. read[k].job.e \in Entries
      BY JobT
    <3> QED
      BY <2>1, <3>1, <3>2, ClaimingFrame
  <2>3. CASE k = i
    BY <2>1, <2>3, ClaimingEnds
  <2> QED
    BY <2>2, <2>3
<1>24. CASE PutCommit(i)
  <2> SUFFICES ASSUME NEW k \in Instances PROVE Claiming(k)'
    BY DEF ClaimingI
  <2>1. UNCHANGED <<kv, foreign, read, srv, weak>> /\ read[i].at = "none" /\ (\E h : disk' = [disk EXCEPT ![i][put[i].job.e] = h])
    BY <1>24 DEF PutCommit, Idle, ghosts
  <2>2. CASE k # i
    <3>1. disk'[k] = disk[k]
      BY <2>1, <2>2 DEF TypeOK
    <3> QED
      BY <2>1, <3>1, ClaimingFrame
  <2>3. CASE k = i
    BY <2>1, <2>3, ClaimingEnds
  <2> QED
    BY <2>2, <2>3
<1>25. CASE PutCancelled(i)
  <2>1. UNCHANGED <<srv, read, weak, foreign>> /\ Removed(i, put[i].job.e) /\ put[i].job.e \in Entries
    BY <1>25, JobT DEF PutCancelled, store, ghosts
  <2> QED
    BY <2>1, DropsC
<1>26. CASE Stop(i)
  BY <1>26, WorkE, StopE, ClaimingSame
<1>27. CASE Leave(i)
  <2> SUFFICES ASSUME NEW k \in Instances PROVE Claiming(k)'
    BY DEF ClaimingI
  <2>1. UNCHANGED <<kv, disk, weak>> /\ read'[k] = (IF k \in {i} THEN NoRead ELSE read[k]) /\ foreign'[k] = (IF k \in {i} THEN Unmarked ELSE foreign[k])
    BY <1>27 DEF Leave, Memory, files, ghosts
  <2>2. srv'[k].cfg = srv[k].cfg
    BY <1>27, GoesE DEF Leave
  <2>3. CASE k # i
    BY <2>1, <2>2, <2>3, ClaimingFrame
  <2>4. CASE k = i
    BY <2>1, <2>4, ClaimingEnds DEF NoRead
  <2> QED
    BY <2>3, <2>4
<1>28. CASE RemoveOwn(i)
  <2> SUFFICES ASSUME NEW k \in Instances PROVE Claiming(k)'
    BY DEF ClaimingI
  <2>1. RemovedAll(i) /\ Goes(i, "ended") /\ UNCHANGED <<read, weak, foreign>>
    BY <1>28, RemoveOwnE
  <2>2. \A g \in Entries : kv'[k][g] # NoFile => kv'[k][g] = kv[k][g] /\ disk'[k][g] = disk[k][g]
    BY <2>1, RemovedAllE
  <2>3. read[k].job.e \in Entries /\ srv'[k].cfg = srv[k].cfg
    BY <2>1, JobT, GoesE
  <2> QED
    BY <2>1, <2>2, <2>3, ClaimingFrame
<1>29. CASE Kill(i)
  <2> SUFFICES ASSUME NEW k \in Instances PROVE Claiming(k)'
    BY DEF ClaimingI
  <2>1. CASE k # i
    <3>1. UNCHANGED <<kv, disk>> /\ weak \subseteq weak' /\ read'[k] = read[k] /\ foreign'[k] = foreign[k] /\ srv'[k] = srv[k]
      BY <1>29, <2>1, KillE
    <3> QED
      BY <3>1, ClaimingFrame
  <2>2. CASE k = i
    BY <1>29, <2>2, KillE, ClaimingEnds DEF NoRead
  <2> QED
    BY <2>1, <2>2
<1>30. CASE KeepIdentity(i) \/ AdoptMoveFails(i) \/ AdoptBeside(i) \/ (\E e \in Entries : AdoptLeaves(i, e)) \/ (\E d \in Instances : SweepNext(i, d) \/ SweepPasses(i, d))
  <2>1. UNCHANGED <<read, kv, foreign, disk, weak, srv>>
    BY ZenonT(60), <1>30 DEF KeepIdentity, SweepNext, SweepPasses, AdoptLeaves, AdoptMoveFails, AdoptBeside, files, ghosts, io, store
  <2> QED
    BY <2>1, ClaimingSame
<1>31. CASE SweepLeave(i) \/ SweepCondemn(i) \/ (\E e \in Entries : Put(i, e) \/ Get(i, e) \/ Claim(i, e) \/ Cancel(i, e))
  <2>1. UNCHANGED <<read, kv, foreign, disk, weak, srv>>
    BY <1>31 DEF SweepLeave, SweepCondemn, Put, Get, Claim, Cancel, files, ghosts, io, store
  <2> QED
    BY <2>1, ClaimingSame
<1>32. CASE OpenWhole(i) \/ TakePut(i) \/ RefusePut(i) \/ PutWrite(i) \/ PutFails(i) \/ (\E e \in Entries : OpenEntry(i, e))
  <2>1. UNCHANGED <<read, kv, foreign, disk, weak, srv>>
    BY <1>32 DEF OpenEntry, OpenWhole, TakePut, RefusePut, PutWrite, PutFails, files, ghosts, io, store
  <2> QED
    BY <2>1, ClaimingSame
<1>33. CASE IdleSweep(i)
  <2>1. UNCHANGED <<read, kv, foreign, disk, weak, srv>>
    BY <1>33 DEF IdleSweep, files, ghosts, io, store
  <2> QED
    BY <2>1, ClaimingSame
<1> QED
  BY <1>1, <1>2, <1>3, <1>4, <1>5, <1>6, <1>7, <1>8, <1>9, <1>10, <1>11, <1>12, <1>13, <1>14, <1>15, <1>16, <1>17, <1>18, <1>19, <1>20, <1>21,
     <1>22, <1>23, <1>24, <1>25, <1>26, <1>27, <1>28, <1>29, <1>30, <1>31, <1>32, <1>33 DEF Acts, Start, Sweep, Call, ReadIO, ClaimSettle, PutIO, End

LEMMA MovingSame == ASSUME MovingI, UNCHANGED <<look, kv, disk, weak>> PROVE MovingI'
  BY DEF MovingI, Moving, Has
\* The steps of an adoption's move.
LEMMA MovingKept ==
  ASSUME DiskStoreAssumption, TypeOK, LocksI, EmptyI, OnceI, PutI, KnownI, HeadedI, ClaimingI, MovingI, NEW i \in Instances, Acts(i)
  PROVE  MovingI'
<1>1. CASE KeepIdentity(i)
  BY SMTT(60), <1>1 DEF DiskStoreAssumption, TypeOK, MovingI, KeepIdentity, Adopts, Begins, Directories, Directory, Has, Locks, LocksI, Look, Mine, Moving,
     NoFile, Opened, Serving, WholeFor, files, ghosts, io, store
<1>2. ASSUME NEW d \in Instances, SweepNext(i, d) PROVE MovingI'
  BY SMTT(60), <1>2 DEF DiskStoreAssumption, TypeOK, MovingI, SweepNext, Adopts, Directory, Files, Has, Locks, LocksI, Look, Mine, Moving, NoFile, Opened,
     Serving, SweepsOn, WholeFor, files, ghosts, io, store
<1>3. ASSUME NEW d \in Instances, SweepPasses(i, d) PROVE MovingI'
  BY SMTT(60), <1>3 DEF DiskStoreAssumption, TypeOK, MovingI, SweepPasses, Adopts, Has, Locks, LocksI, Look, Mine, Moving, NoFile, Opened, Serving, SweepsOn,
     WholeFor, files, ghosts, io, store
<1>4. CASE SweepEnd(i)
  BY SMTT(60), <1>4 DEF DiskStoreAssumption, TypeOK, MovingI, SweepEnd, Adopts, Goes, Has, Locks, LocksI, Look, Mine, Moving, NoFile, Opened, Server, Serving,
     WholeFor, files, ghosts, io, store
<1>5. ASSUME NEW e \in Entries, AdoptLeaves(i, e) PROVE MovingI'
  <2> SUFFICES ASSUME NEW k \in Instances PROVE Moving(k)'
    BY DEF MovingI
  <2>1. CASE k = i
    BY <1>5, <2>1, AdoptLeavesE, MovingRests DEF Looks
  <2>2. CASE k # i
    <3>1. look'[k] = look[k] /\ UNCHANGED <<kv, disk, weak>>
      BY ZenonT(60), <1>5, <2>2, AdoptLeavesE
    <3> QED
      BY <3>1, MovingFrame
  <2> QED
    BY <2>1, <2>2
<1>6. ASSUME NEW e \in Entries, AdoptPasses(i, e) PROVE MovingI'
  <2> SUFFICES ASSUME NEW k \in Instances PROVE Moving(k)'
    BY DEF MovingI
  <2>1. CASE k = i
    BY <1>6, <2>1, AdoptPassesE, MovingRests
  <2>2. CASE k # i
    <3> DEFINE d == look[k].at  x == look[k].mv
    <3>1. look'[k] = look[k] /\ UNCHANGED weak
      BY ZenonT(60), <1>6, <2>2, AdoptO
    <3>2. look[i].at \in Instances /\ ~Opened(look[i].at) /\ Opened(i) /\ dir[look[i].at].lock = i
      BY <1>6, AdoptO
    <3>3. ASSUME d \in Instances, Opened(k), ~Opened(d), dir[d].lock = k
          PROVE  /\ kv'[k][x] # NoFile => kv[k][x] # NoFile
                 /\ kv'[d][x] # NoFile => kv'[d][x] = kv[d][x] /\ disk'[d][x] = disk[d][x]
      <4>1. k # look[i].at /\ d # look[i].at /\ d # i /\ x \in Entries
        BY <2>2, <3>2, <3>3, LookedT
      <4>2. kv'[k][x] = kv[k][x]
        BY <1>6, <2>2, <4>1, AdoptPassesE
      <4>3. kv'[d][x] = kv[d][x] /\ disk'[d][x] = disk[d][x]
        BY <1>6, <3>3, <4>1, AdoptPassesE
      <4> QED
        BY <4>2, <4>3
    <3> QED
      BY <3>1, <3>3, MovingFrame
  <2> QED
    BY <2>1, <2>2
<1>7. ASSUME NEW e \in Entries, AdoptTakes(i, e) PROVE MovingI'
  <2> SUFFICES ASSUME NEW k \in Instances PROVE Moving(k)'
    BY DEF MovingI
  <2>1. CASE k = i
    <3> DEFINE d == look[i].at  as == TakenAs(i, d, e)
    <3>1. d \in Instances /\ Readable(d, e) /\ Standing(d, e) = WholeFor(as) /\ look'[i].phase = "move" /\ look'[i].at = d /\ look'[i].mv = e /\ look'[i].as = as /\ UNCHANGED weak /\ look[i].phase = "adopt"
      BY <1>7, AdoptTakesE
    <3>2. as # NoBuild
      BY <3>1, MineT DEF TakenAs, DiskStoreAssumption
    <3>3. kv[d][e] # NoFile /\ kv[d][e].s = as /\ (from[d][e] = NoBuild => kv[d][e] = WholeFor(as))
      BY <3>1, <3>2, StandingE, WholeIsFile DEF WholeFor, Marked
    <3>4. d # i /\ ~Serving(d)
      BY <3>1, LookingE DEF DiskStoreAssumption
    <3>5. kv[i][e] = NoFile
      BY <3>1, <3>3, <3>4 DEF OnceI, Once, Has
    <3>6. kv'[i][e] = NoFile
      BY <1>7, <3>4, <3>5, AdoptTakesF
    <3>7. kv'[d][e] = WholeFor(as)
      BY <1>7, <3>1, AdoptTakesF
    <3>8. disk'[d][e] = IF kv[d][e] # WholeFor(as) THEN WholeFor(as) ELSE disk[d][e]
      BY <1>7, <3>1, AdoptTakesF
    <3>9. (e \notin weak /\ kv[d][e] = WholeFor(as)) => disk[d][e] \in {WholeFor(as), NoFile}
      <4>1. Headed(d, e)
        BY <3>1 DEF HeadedI
      <4>2. ~Syncing(d, e)
        BY <3>1, <3>4 DEF LocksI, Locks, Syncing
      <4>3. kv[d][e] = WholeFor(as) => kv[d][e].f = kv[d][e].s
        BY DEF WholeFor
      <4> QED
        BY <3>3, <4>1, <4>2, <4>3 DEF Headed, Has
    <3> HIDE DEF d, as
    <3> QED
      BY <2>1, <3>1, <3>2, <3>6, <3>7, <3>8, <3>9 DEF Moving, Has
  <2>2. CASE k # i
    <3> DEFINE d == look[k].at  x == look[k].mv
    <3>1. look'[k] = look[k] /\ UNCHANGED weak
      BY ZenonT(60), <1>7, <2>2, AdoptO
    <3>2. look[i].at \in Instances /\ ~Opened(look[i].at) /\ Opened(i) /\ dir[look[i].at].lock = i
      BY <1>7, AdoptO
    <3>3. ASSUME d \in Instances, Opened(k), ~Opened(d), dir[d].lock = k
          PROVE  /\ kv'[k][x] # NoFile => kv[k][x] # NoFile
                 /\ kv'[d][x] # NoFile => kv'[d][x] = kv[d][x] /\ disk'[d][x] = disk[d][x]
      <4>1. k # look[i].at /\ d # look[i].at /\ d # i /\ x \in Entries
        BY <2>2, <3>2, <3>3, LookedT
      <4>2. kv'[k][x] = kv[k][x]
        BY <1>7, <2>2, <4>1, AdoptTakesF
      <4>3. kv'[d][x] = kv[d][x] /\ disk'[d][x] = disk[d][x]
        BY <1>7, <3>3, <4>1, AdoptTakesF
      <4> QED
        BY <4>2, <4>3
    <3> QED
      BY <3>1, <3>3, MovingFrame
  <2> QED
    BY <2>1, <2>2
<1>8. CASE AdoptMove(i)
  <2> SUFFICES ASSUME NEW k \in Instances PROVE Moving(k)'
    BY DEF MovingI
  <2>1. CASE k = i
    <3> DEFINE d == look[i].at  e == look[i].mv
    <3>1. look'[i].phase \in {"adopt", "beside"} /\ look'[i].at = d /\ look'[i].mv = e /\ d \in Instances /\ e \in Entries
      BY <1>8, AdoptMoveE
    <3>2. kv'[d][e] = NoFile
      BY <1>8, <3>1, AdoptMoveF
    <3> QED
      BY <2>1, <3>1, <3>2 DEF Moving, Has
  <2>2. CASE k # i
    <3> DEFINE d == look[k].at  x == look[k].mv
    <3>1. look'[k] = look[k] /\ UNCHANGED weak
      BY <1>8, <2>2, AdoptO
    <3>2. look[i].at \in Instances /\ ~Opened(look[i].at) /\ Opened(i) /\ dir[look[i].at].lock = i
      BY <1>8, AdoptO
    <3>3. ASSUME d \in Instances, Opened(k), ~Opened(d), dir[d].lock = k
          PROVE  /\ kv'[k][x] # NoFile => kv[k][x] # NoFile
                 /\ kv'[d][x] # NoFile => kv'[d][x] = kv[d][x] /\ disk'[d][x] = disk[d][x]
      <4>1. k # look[i].at /\ d # look[i].at /\ d # i /\ x \in Entries
        BY <2>2, <3>2, <3>3, LookedT
      <4>2. kv'[k][x] = kv[k][x]
        BY <1>8, <2>2, <4>1, AdoptMoveF
      <4>3. kv'[d][x] = kv[d][x] /\ disk'[d][x] = disk[d][x]
        BY <1>8, <3>3, <4>1, AdoptMoveF
      <4> QED
        BY <4>2, <4>3
    <3> QED
      BY <3>1, <3>3, MovingFrame
  <2> QED
    BY <2>1, <2>2
<1>9. CASE AdoptMoveFails(i)
  BY <1>9 DEF DiskStoreAssumption, TypeOK, MovingI, AdoptMoveFails, Adopts, Has, Locks, LocksI, Look, Moving, Opened, Serving, ghosts, io, store
<1>10. CASE AdoptBeside(i)
  BY SMTT(60), <1>10 DEF DiskStoreAssumption, TypeOK, MovingI, AdoptBeside, Adopts, Has, Locks, LocksI, Moving, Opened, Serving, ghosts, io, store
<1>11. CASE SweepLeave(i)
  BY <1>11 DEF DiskStoreAssumption, TypeOK, MovingI, SweepLeave, Adopts, Has, LookEnded, Moving, NoLook, Spared, SweepDone, files, ghosts, io, store
<1>12. CASE SweepCondemn(i)
  BY <1>12 DEF DiskStoreAssumption, TypeOK, MovingI, SweepCondemn, Adopts, Has, LookEnded, Moving, NoLook, Spared, SweepDone, files, ghosts, io, store
<1>13. CASE SweepRemove(i)
  <2> SUFFICES ASSUME NEW k \in Instances PROVE Moving(k)'
    BY DEF MovingI
  <2>1. RemovedAll(look[i].at) /\ look[i].at \in Instances /\ UNCHANGED weak /\ look[k].mv \in Entries /\ look' = [look EXCEPT ![i] = LookEnded(look[i])]
    BY <1>13, SweepRemoveE, LookedT
  <2>2. CASE k = i
    BY <2>1, <2>2, LookEndedE, MovingRests
  <2>3. CASE k # i
    <3>1. \A c \in Instances, g \in Entries : kv'[c][g] # NoFile => kv'[c][g] = kv[c][g] /\ disk'[c][g] = disk[c][g]
      BY <2>1, RemovedAllE
    <3>2. look'[k] = look[k]
      BY <2>1, <2>3, LookEndedE
    <3> QED
      BY ZenonT(60), <2>1, <3>1, <3>2, MovingFrame
  <2> QED
    BY <2>2, <2>3
<1>14. ASSUME NEW e \in Entries, Evict(i, e) PROVE MovingI'
  <2> SUFFICES ASSUME NEW k \in Instances PROVE Moving(k)'
    BY DEF MovingI
  <2>1. Serving(i) /\ UNCHANGED <<look, weak>> /\ Removed(i, e)
    BY <1>14, EvictE DEF Serving
  <2> DEFINE d == look[k].at  x == look[k].mv
  <2>2. ASSUME d \in Instances, ~Serving(k), ~Serving(d)
        PROVE  /\ kv'[k][x] # NoFile => kv[k][x] # NoFile
               /\ kv'[d][x] # NoFile => kv'[d][x] = kv[d][x] /\ disk'[d][x] = disk[d][x]
    <3>1. k # i /\ d # i /\ x \in Entries
      BY <2>1, <2>2, LookedT
    <3>2. kv'[k][x] = kv[k][x]
      BY <2>1, <3>1, RemovedE
    <3>3. kv'[d][x] = kv[d][x] /\ disk'[d][x] = disk[d][x]
      BY <2>1, <2>2, <3>1, RemovedE
    <3> QED
      BY <3>2, <3>3
  <2> QED
    BY <2>1, <2>2, MovingFrame
<1>15. CASE OpenBad(i)
  <2> SUFFICES ASSUME NEW k \in Instances PROVE Moving(k)'
    BY DEF MovingI
  <2>1. Serving(i) /\ UNCHANGED <<look, weak>> /\ Removed(i, stream[i].e) /\ stream[i].e \in Entries
    BY <1>15, OpenBadE
  <2> DEFINE d == look[k].at  x == look[k].mv
  <2>2. ASSUME d \in Instances, ~Serving(k), ~Serving(d)
        PROVE  /\ kv'[k][x] # NoFile => kv[k][x] # NoFile
               /\ kv'[d][x] # NoFile => kv'[d][x] = kv[d][x] /\ disk'[d][x] = disk[d][x]
    <3>1. k # i /\ d # i /\ x \in Entries
      BY <2>1, <2>2, LookedT
    <3>2. kv'[k][x] = kv[k][x]
      BY <2>1, <3>1, RemovedE
    <3>3. kv'[d][x] = kv[d][x] /\ disk'[d][x] = disk[d][x]
      BY <2>1, <2>2, <3>1, RemovedE
    <3> QED
      BY <3>2, <3>3
  <2> QED
    BY <2>1, <2>2, MovingFrame
<1>16. CASE ReadBad(i)
  <2> SUFFICES ASSUME NEW k \in Instances PROVE Moving(k)'
    BY DEF MovingI
  <2>1. Serving(i) /\ UNCHANGED <<look, weak>> /\ Removed(i, read[i].job.e) /\ read[i].job.e \in Entries
    BY <1>16, DroppedE
  <2> DEFINE d == look[k].at  x == look[k].mv
  <2>2. ASSUME d \in Instances, ~Serving(k), ~Serving(d)
        PROVE  /\ kv'[k][x] # NoFile => kv[k][x] # NoFile
               /\ kv'[d][x] # NoFile => kv'[d][x] = kv[d][x] /\ disk'[d][x] = disk[d][x]
    <3>1. k # i /\ d # i /\ x \in Entries
      BY <2>1, <2>2, LookedT
    <3>2. kv'[k][x] = kv[k][x]
      BY <2>1, <3>1, RemovedE
    <3>3. kv'[d][x] = kv[d][x] /\ disk'[d][x] = disk[d][x]
      BY <2>1, <2>2, <3>1, RemovedE
    <3> QED
      BY <3>2, <3>3
  <2> QED
    BY <2>1, <2>2, MovingFrame
<1>17. CASE RewriteField(i)
  <2> SUFFICES ASSUME NEW k \in Instances PROVE Moving(k)'
    BY DEF MovingI
  <2>1. Serving(i) /\ UNCHANGED <<disk, look, weak>>
    BY <1>17, RewriteFieldE
  <2> DEFINE d == look[k].at  x == look[k].mv
  <2>2. ASSUME d \in Instances, ~Serving(k), ~Serving(d)
        PROVE  /\ kv'[k][x] # NoFile => kv[k][x] # NoFile
               /\ kv'[d][x] # NoFile => kv'[d][x] = kv[d][x] /\ disk'[d][x] = disk[d][x]
    <3>1. k # i /\ d # i /\ x \in Entries
      BY <2>1, <2>2, LookedT
    <3>2. kv'[k][x] = kv[k][x]
      BY <1>17, <2>1, <3>1, RewriteFieldF
    <3>3. kv'[d][x] = kv[d][x] /\ disk'[d][x] = disk[d][x]
      BY <1>17, <2>1, <2>2, <3>1, RewriteFieldF
    <3> QED
      BY <3>2, <3>3
  <2> QED
    BY <2>1, <2>2, MovingFrame
<1>18. CASE RewriteSum(i)
  <2> SUFFICES ASSUME NEW k \in Instances PROVE Moving(k)'
    BY DEF MovingI
  <2>1. Serving(i) /\ UNCHANGED <<disk, look, weak>>
    BY <1>18, RewriteSumE
  <2> DEFINE d == look[k].at  x == look[k].mv
  <2>2. ASSUME d \in Instances, ~Serving(k), ~Serving(d)
        PROVE  /\ kv'[k][x] # NoFile => kv[k][x] # NoFile
               /\ kv'[d][x] # NoFile => kv'[d][x] = kv[d][x] /\ disk'[d][x] = disk[d][x]
    <3>1. k # i /\ d # i /\ x \in Entries
      BY <2>1, <2>2, LookedT
    <3>2. kv'[k][x] = kv[k][x]
      BY <1>18, <2>1, <3>1, RewriteSumE
    <3>3. kv'[d][x] = kv[d][x] /\ disk'[d][x] = disk[d][x]
      BY <1>18, <2>1, <2>2, <3>1, RewriteSumE
    <3> QED
      BY <3>2, <3>3
  <2> QED
    BY <2>1, <2>2, MovingFrame
<1>19. CASE RewriteSync(i)
  BY SMTT(60), <1>19 DEF DiskStoreAssumption, TypeOK, MovingI, RewriteSync, Adopts, Has, Locks, LocksI, Mine, Moving, NoFile, Opened, Read, ReadAt, Rewriting,
     Serving, WholeFor, ghosts, store
<1>20. CASE RewriteFails(i)
  BY <1>20 DEF MovingI, RewriteFails, Has, Moving, ReadAt, Serving, files
<1>21. CASE ClaimLost(i)
  <2> SUFFICES ASSUME NEW k \in Instances PROVE Moving(k)'
    BY DEF MovingI
  <2>1. Serving(i) /\ UNCHANGED <<look, weak>> /\ Removed(i, read[i].job.e) /\ read[i].job.e \in Entries
    BY <1>21, DroppedE
  <2> DEFINE d == look[k].at  x == look[k].mv
  <2>2. ASSUME d \in Instances, ~Serving(k), ~Serving(d)
        PROVE  /\ kv'[k][x] # NoFile => kv[k][x] # NoFile
               /\ kv'[d][x] # NoFile => kv'[d][x] = kv[d][x] /\ disk'[d][x] = disk[d][x]
    <3>1. k # i /\ d # i /\ x \in Entries
      BY <2>1, <2>2, LookedT
    <3>2. kv'[k][x] = kv[k][x]
      BY <2>1, <3>1, RemovedE
    <3>3. kv'[d][x] = kv[d][x] /\ disk'[d][x] = disk[d][x]
      BY <2>1, <2>2, <3>1, RemovedE
    <3> QED
      BY <3>2, <3>3
  <2> QED
    BY <2>1, <2>2, MovingFrame
<1>22. CASE ClaimKept(i)
  <2> SUFFICES ASSUME NEW k \in Instances PROVE Moving(k)'
    BY DEF MovingI
  <2>1. Serving(i) /\ UNCHANGED <<look, weak>>
    BY <1>22, ClaimKeptE
  <2> DEFINE d == look[k].at  x == look[k].mv
  <2>2. ASSUME d \in Instances, ~Serving(k), ~Serving(d)
        PROVE  /\ kv'[k][x] # NoFile => kv[k][x] # NoFile
               /\ kv'[d][x] # NoFile => kv'[d][x] = kv[d][x] /\ disk'[d][x] = disk[d][x]
    <3>1. k # i /\ d # i /\ x \in Entries
      BY <2>1, <2>2, LookedT
    <3>2. kv'[k][x] = kv[k][x]
      BY <1>22, <2>1, <3>1, ClaimKeptE
    <3>3. kv'[d][x] = kv[d][x] /\ disk'[d][x] = disk[d][x]
      BY <1>22, <2>1, <2>2, <3>1, ClaimKeptE
    <3> QED
      BY <3>2, <3>3
  <2> QED
    BY <2>1, <2>2, MovingFrame
<1>23. CASE PutRename(i)
  BY SMTT(60), <1>23 DEF DiskStoreAssumption, TypeOK, MovingI, PutRename, Adopts, Directory, Has, Idle, Locks, LocksI, Mine, Moving, NoFile, Opened, Serving,
     Untemped, WholeFor, Write, ghosts, store
<1>24. CASE PutCommit(i)
  BY SMTT(60), <1>24 DEF DiskStoreAssumption, TypeOK, MovingI, PutCommit, Adopts, Has, Idle, Locks, LocksI, Mine, Moving, NoFile, NoWrite, Opened, Serving,
     WholeFor, Write, WriteEnds, ghosts
<1>25. CASE PutCancelled(i)
  <2> SUFFICES ASSUME NEW k \in Instances PROVE Moving(k)'
    BY DEF MovingI
  <2>1. Serving(i) /\ UNCHANGED <<look, weak>> /\ Removed(i, put[i].job.e) /\ put[i].job.e \in Entries
    BY <1>25, JobT DEF PutCancelled, Idle, ghosts
  <2> DEFINE d == look[k].at  x == look[k].mv
  <2>2. ASSUME d \in Instances, ~Serving(k), ~Serving(d)
        PROVE  /\ kv'[k][x] # NoFile => kv[k][x] # NoFile
               /\ kv'[d][x] # NoFile => kv'[d][x] = kv[d][x] /\ disk'[d][x] = disk[d][x]
    <3>1. k # i /\ d # i /\ x \in Entries
      BY <2>1, <2>2, LookedT
    <3>2. kv'[k][x] = kv[k][x]
      BY <2>1, <3>1, RemovedE
    <3>3. kv'[d][x] = kv[d][x] /\ disk'[d][x] = disk[d][x]
      BY <2>1, <2>2, <3>1, RemovedE
    <3> QED
      BY <3>2, <3>3
  <2> QED
    BY <2>1, <2>2, MovingFrame
<1>26. CASE IdleSweep(i)
  BY SMTT(60), <1>26 DEF DiskStoreAssumption, TypeOK, MovingI, IdleSweep, Adopts, Begins, Directories, Has, Idle, Locks, LocksI, Look, Mine, Moving, NoFile,
     Opened, Serving, WholeFor, files, ghosts, io, store
<1>27. CASE Leave(i)
  BY <1>27 DEF MovingI, Leave, Goes, Has, Idle, Memory, Moving, NoLook, NoRead, NoStream, NoWrite, Serving, Unmarked, files, ghosts
<1>28. CASE RemoveOwn(i)
  <2> SUFFICES ASSUME NEW k \in Instances PROVE Moving(k)'
    BY DEF MovingI
  <2>1. RemovedAll(i) /\ UNCHANGED <<look, weak>> /\ look[k].mv \in Entries
    BY <1>28, RemoveOwnE, LookedT
  <2>2. \A c \in Instances, g \in Entries : kv'[c][g] # NoFile => kv'[c][g] = kv[c][g] /\ disk'[c][g] = disk[c][g]
    BY <2>1, RemovedAllE
  <2> QED
    BY <2>1, <2>2, MovingFrame
<1>29. CASE Kill(i)
  BY <1>29 DEF MovingI, Kill, Goes, Has, Live, Memory, Moving, NoLook, NoRead, NoStream, NoWrite, Unlocked, Unmarked, files
<1>30. CASE MakeDirectory(i) \/ TakeLock(i) \/ LockRefused(i) \/ (\E e \in Entries : Put(i, e) \/ Get(i, e) \/ Claim(i, e))
  <2>1. UNCHANGED <<look, kv, disk, weak>>
    BY <1>30 DEF MakeDirectory, TakeLock, LockRefused, Put, Get, Claim, files, ghosts
  <2> QED
    BY <2>1, MovingSame
<1>31. CASE OpenWhole(i) \/ TakeRead(i) \/ ReadWhole(i) \/ ClaimBegins(i) \/ (\E e \in Entries : Cancel(i, e) \/ OpenEntry(i, e))
  <2>1. UNCHANGED <<look, kv, disk, weak>>
    BY <1>31 DEF Cancel, OpenEntry, OpenWhole, TakeRead, ReadWhole, ClaimBegins, files, ghosts
  <2> QED
    BY <2>1, MovingSame
<1>32. CASE RewriteBeside(i) \/ SettleFails(i) \/ TakePut(i) \/ RefusePut(i) \/ PutWrite(i) \/ PutFails(i)
  <2>1. UNCHANGED <<look, kv, disk, weak>>
    BY <1>32 DEF RewriteBeside, SettleFails, TakePut, RefusePut, PutWrite, PutFails, files, ghosts
  <2> QED
    BY <2>1, MovingSame
<1>33. CASE Stop(i)
  <2>1. UNCHANGED <<look, kv, disk, weak>>
    BY <1>33 DEF Stop, files, ghosts
  <2> QED
    BY <2>1, MovingSame
<1> QED
  BY <1>1, <1>2, <1>3, <1>4, <1>5, <1>6, <1>7, <1>8, <1>9, <1>10, <1>11, <1>12, <1>13, <1>14, <1>15, <1>16, <1>17, <1>18, <1>19, <1>20, <1>21,
     <1>22, <1>23, <1>24, <1>25, <1>26, <1>27, <1>28, <1>29, <1>30, <1>31, <1>32, <1>33 DEF Acts, Start, Sweep, Call, ReadIO, ClaimSettle, PutIO, End

LEMMA LookedSame == ASSUME LookedI, UNCHANGED <<look, kv, disk, from, srv, dir>> PROVE LookedI'
  BY DEF LookedI, Looked, Keeps, Files, Adopts, Mine
\* A sweep's look over what its directory keeps.
LEMMA LookedKept ==
  ASSUME DiskStoreAssumption, TypeOK, LocksI, EmptyI, OnceI, HeadedI, MovingI, LookedI, NEW i \in Instances, Acts(i)
  PROVE  LookedI'
<1>1. CASE MakeDirectory(i)
  <2> SUFFICES ASSUME NEW k \in Instances PROVE Looked(k)'
    BY DEF LookedI
  <2>1. UNCHANGED <<look, kv, disk, from>> /\ (Opened(k) => srv'[k] = srv[k])
    BY <1>1, MakeDirectoryE DEF Opened
  <2>2. \A d \in Instances : dir'[d].id = dir[d].id
    <3> TAKE d \in Instances
    <3> QED
      BY <1>1, MakeDirectoryE
  <2> QED
    BY <2>1, <2>2, LookedFrame
<1>2. CASE TakeLock(i)
  BY SMTT(60), <1>2 DEF DiskStoreAssumption, TypeOK, LookedI, TakeLock, Adopts, Directory, Files, Goes, Keeps, Locks, LocksI, Looked, Mine, NoFile, Opened,
     Server, WholeFor, files, ghosts, io, store
<1>3. CASE LockRefused(i)
  <2> SUFFICES ASSUME NEW k \in Instances PROVE Looked(k)'
    BY DEF LookedI
  <2>1. UNCHANGED <<look, kv, disk, from, dir>>
    BY <1>3 DEF LockRefused, files
  <2>2. srv'[k].cfg = srv[k].cfg
    BY <1>3, GoesE DEF LockRefused
  <2> QED
    BY <2>1, <2>2, LookedFrame
<1>4. CASE KeepIdentity(i)
  BY SMTT(60), <1>4 DEF DiskStoreAssumption, TypeOK, LookedI, KeepIdentity, Adopts, Begins, Directories, Directory, Files, Keeps, Locks, LocksI, Look, Looked,
     Mine, NoFile, Opened, WholeFor, files, ghosts, io, store
<1>5. ASSUME NEW d \in Instances, SweepNext(i, d) PROVE LookedI'
  BY SMTT(60), <1>5 DEF DiskStoreAssumption, TypeOK, LookedI, SweepNext, Adopts, Directory, Files, Keeps, Locks, LocksI, Look, Looked, Mine, NoFile, Opened,
     SweepsOn, WholeFor, files, ghosts, io, store
<1>6. ASSUME NEW d \in Instances, SweepPasses(i, d) PROVE LookedI'
  BY SMTT(60), <1>6 DEF DiskStoreAssumption, TypeOK, LookedI, SweepPasses, Adopts, Files, Keeps, Locks, LocksI, Look, Looked, Mine, NoFile, Opened, SweepsOn,
     WholeFor, files, ghosts, io, store
<1>7. CASE SweepEnd(i)
  BY SMTT(60), <1>7 DEF DiskStoreAssumption, TypeOK, LookedI, SweepEnd, Adopts, Files, Goes, Keeps, Locks, LocksI, Look, Looked, Mine, NoFile, Opened, Server,
     WholeFor, files, ghosts, io, store
<1>8. ASSUME NEW e \in Entries, AdoptLeaves(i, e) PROVE LookedI'
  <2> SUFFICES ASSUME NEW k \in Instances PROVE Looked(k)'
    BY DEF LookedI
  <2>1. UNCHANGED <<kv, disk, from, srv, dir>>
    BY <1>8, AdoptLeavesE
  <2>s. CASE k = i
    <3> DEFINE d == look[i].at
    <3>1. /\ look'[i].at = d /\ look'[i].sweep = look[i].sweep /\ (look[i].retain => look'[i].retain) /\ look'[i].refused = look[i].refused
          /\ look'[i].todo = look[i].todo \ {e} /\ look'[i].phase = look[i].phase /\ look'[i].unread = look[i].unread
      BY <1>8, AdoptLeavesE
    <3>2. from[d][e] # NoBuild /\ d \in Instances
      BY <1>8, AdoptLeavesE DEF Marked
    <3>3. e \notin Keeps(d)' /\ Keeps(d)' = Keeps(d)
      BY <2>1, <3>1, <3>2 DEF Keeps, Files
    <3>4. Looked(i)
      BY DEF LookedI
    <3> QED
      BY <2>1, <2>s, <3>1, <3>3, <3>4 DEF Looked, Adopts, Mine
  <2>o. CASE k # i
    <3>1. look'[k] = look[k] /\ srv'[k] = srv[k]
      BY ZenonT(60), <1>8, <2>o, AdoptO
    <3>2. ASSUME look[k].at \in Instances, ~Opened(look[k].at), dir[look[k].at].lock = k, NEW g \in Entries
          PROVE  LET d == look[k].at IN kv'[d][g] = kv[d][g] /\ disk'[d][g] = disk[d][g] /\ from'[d][g] = from[d][g] /\ dir'[d].id = dir[d].id
      <4> DEFINE d == look[k].at
      <4>1. d # i /\ d # look[i].at /\ d \in Instances /\ dir' = dir
        BY <1>8, <2>o, <3>2, AdoptO
      <4> HIDE DEF d
      <4>2. kv'[d][g] = kv[d][g] /\ disk'[d][g] = disk[d][g] /\ from'[d][g] = from[d][g]
        BY <4>1, <2>1
      <4> QED
        BY <4>1, <4>2 DEF d
    <3> QED
      BY <3>1, <3>2, LookedFrame
  <2> QED
    BY <2>s, <2>o
<1>9. ASSUME NEW e \in Entries, AdoptPasses(i, e) PROVE LookedI'
  <2> SUFFICES ASSUME NEW k \in Instances PROVE Looked(k)'
    BY DEF LookedI
  <2>s. CASE k = i
    <3> DEFINE d == look[i].at  as == TakenAs(i, d, e)
    <3>1. /\ UNCHANGED <<from, dir, srv>> /\ look'[i].at = d /\ look'[i].sweep = look[i].sweep /\ (look[i].retain => look'[i].retain) /\ look'[i].refused = look[i].refused
          /\ look'[i].todo = look[i].todo \ {e} /\ look'[i].phase = look[i].phase /\ look[i].unread \subseteq look'[i].unread
      BY <1>9, AdoptPassesE
    <3>2. d \in Instances /\ look[i].phase # "remove"
      BY <1>9, AdoptO
    <3>3. \A g \in Entries : g # e => kv'[d][g] = kv[d][g] /\ disk'[d][g] = disk[d][g]
      BY <1>9, <3>2, AdoptPassesE
    <3>4. look'[i].retain \/ e \in look'[i].unread \/ (as # Mine(i) /\ ~srv[i].cfg.proved) \/ Standing(d, e) # WholeFor(as)
      BY <1>9, AdoptPassesE
    <3>5. ASSUME e \in Keeps(d)', ~look'[i].retain, e \notin look'[i].unread
          PROVE  ~srv[i].cfg.proved /\ dir[d].id # Mine(i)
      <4>1. from[d][e] = NoBuild /\ kv'[d][e] # NoFile /\ kv'[d][e] = WholeFor(dir[d].id)
        BY <3>1, <3>5 DEF Keeps, Files
      <4>2. kv'[d][e] = Standing(d, e)
        BY <1>9, <3>2, AdoptPassesE
      <4>3. Wrote(d, e) = dir[d].id
        BY <4>1 DEF Wrote, Marked
      <4>4. dir[d].id # NoBuild
        BY <4>1 DEF WholeFor, NoFile
      <4>5. as = dir[d].id
        BY <4>3, <4>4 DEF TakenAs
      <4> QED
        BY <3>4, <3>5, <4>1, <4>2, <4>5
    <3>6. ASSUME NEW g \in Keeps(d)', g # e PROVE g \in Keeps(d)
      BY <3>1, <3>3, <3>6 DEF Keeps, Files
    <3>7. Looked(i)
      BY DEF LookedI
    <3>8. Adopts(i)' => Adopts(i)
      BY <3>1 DEF Adopts
    <3>9. ASSUME NEW g \in Keeps(d)', Adopts(i), ~look'[i].retain, ~look'[i].refused
          PROVE  g \in look'[i].todo \/ g \in look'[i].unread \/ (~srv[i].cfg.proved /\ dir[d].id # Mine(i))
      <4>1. CASE g = e
        BY <3>5, <3>9, <4>1
      <4>2. CASE g # e
        <5>1. g \in Keeps(d)
          BY <3>6, <3>9, <4>2
        <5>2. ~look[i].retain /\ ~look[i].refused /\ d # Nobody /\ look[i].phase # "remove"
          BY <3>1, <3>2, <3>9 DEF DiskStoreAssumption
        <5>3. g \in look[i].todo \/ g \in look[i].unread \/ (~srv[i].cfg.proved /\ dir[d].id # Mine(i))
          BY <3>7, <3>9, <5>1, <5>2 DEF Looked
        <5> QED
          BY <3>1, <4>2, <5>3
      <4> QED
        BY <4>1, <4>2
    <3> QED
      BY <2>s, <3>1, <3>8, <3>9 DEF Looked, Mine
  <2>o. CASE k # i
    <3>1. look'[k] = look[k] /\ srv'[k] = srv[k]
      BY ZenonT(60), <1>9, <2>o, AdoptO
    <3>2. ASSUME look[k].at \in Instances, ~Opened(look[k].at), dir[look[k].at].lock = k, NEW g \in Entries
          PROVE  LET d == look[k].at IN kv'[d][g] = kv[d][g] /\ disk'[d][g] = disk[d][g] /\ from'[d][g] = from[d][g] /\ dir'[d].id = dir[d].id
      <4> DEFINE d == look[k].at
      <4>1. d # i /\ d # look[i].at /\ d \in Instances /\ dir' = dir
        BY <1>9, <2>o, <3>2, AdoptO
      <4> HIDE DEF d
      <4>2. kv'[d][g] = kv[d][g] /\ disk'[d][g] = disk[d][g] /\ from'[d][g] = from[d][g]
        BY <1>9, <4>1, AdoptPassesE
      <4> QED
        BY <4>1, <4>2 DEF d
    <3> QED
      BY <3>1, <3>2, LookedFrame
  <2> QED
    BY <2>s, <2>o
<1>10. ASSUME NEW e \in Entries, AdoptTakes(i, e) PROVE LookedI'
  <2> SUFFICES ASSUME NEW k \in Instances PROVE Looked(k)'
    BY DEF LookedI
  <2>s. CASE k = i
    <3> DEFINE d == look[i].at
    <3>1. /\ UNCHANGED <<dir, srv>> /\ look'[i].at = d /\ look'[i].sweep = look[i].sweep /\ look'[i].retain = look[i].retain /\ look'[i].refused = look[i].refused
          /\ look'[i].todo = look[i].todo /\ e \in look[i].todo /\ look'[i].unread = look[i].unread
      BY <1>10, AdoptTakesE
    <3>2. d \in Instances /\ d # i /\ look[i].phase # "remove"
      BY <1>10, AdoptO
    <3>3. \A g \in Entries : g # e => kv'[d][g] = kv[d][g] /\ disk'[d][g] = disk[d][g] /\ from'[d][g] = from[d][g]
      BY <1>10, <3>2, AdoptTakesF
    <3> QED
      BY <2>s, <3>1, <3>2, <3>3, LookedFrame
  <2>o. CASE k # i
    <3>1. look'[k] = look[k] /\ srv'[k] = srv[k]
      BY ZenonT(60), <1>10, <2>o, AdoptO
    <3>2. ASSUME look[k].at \in Instances, ~Opened(look[k].at), dir[look[k].at].lock = k, NEW g \in Entries
          PROVE  LET d == look[k].at IN kv'[d][g] = kv[d][g] /\ disk'[d][g] = disk[d][g] /\ from'[d][g] = from[d][g] /\ dir'[d].id = dir[d].id
      <4> DEFINE d == look[k].at
      <4>1. d # i /\ d # look[i].at /\ d \in Instances /\ dir' = dir
        BY <1>10, <2>o, <3>2, AdoptO
      <4> HIDE DEF d
      <4>2. kv'[d][g] = kv[d][g] /\ disk'[d][g] = disk[d][g] /\ from'[d][g] = from[d][g]
        BY <1>10, <4>1, AdoptTakesF
      <4> QED
        BY <4>1, <4>2 DEF d
    <3> QED
      BY <3>1, <3>2, LookedFrame
  <2> QED
    BY <2>s, <2>o
<1>11. CASE AdoptMove(i)
  <2> SUFFICES ASSUME NEW k \in Instances PROVE Looked(k)'
    BY DEF LookedI
  <2>s. CASE k = i
    <3> DEFINE d == look[i].at  e == look[i].mv
    <3>1. /\ UNCHANGED <<from, dir, srv>> /\ look'[i].at = d /\ look'[i].sweep = look[i].sweep /\ look'[i].retain = look[i].retain /\ look'[i].refused = look[i].refused
          /\ look'[i].todo = (IF from[d][e] = NoBuild THEN look[i].todo \ {e} ELSE look[i].todo) /\ look'[i].unread = look[i].unread
      BY ZenonT(60), <1>11, AdoptMoveE
    <3>2. d \in Instances /\ d # i /\ look[i].phase # "remove"
      BY <1>11, AdoptO
    <3>3. ASSUME NEW g \in Entries, kv'[d][g] # NoFile
          PROVE  kv'[d][g] = kv[d][g] /\ disk'[d][g] = disk[d][g] /\ g # e
      BY <1>11, <3>2, <3>3, AdoptMoveF
    <3>4. \A g : g # e /\ g \in look[i].todo => g \in look'[i].todo
      BY <3>1
    <3> QED
      BY <2>s, <3>1, <3>2, <3>3, <3>4, LookedFrame
  <2>o. CASE k # i
    <3>1. look'[k] = look[k] /\ srv'[k] = srv[k]
      BY <1>11, <2>o, AdoptO
    <3>2. ASSUME look[k].at \in Instances, ~Opened(look[k].at), dir[look[k].at].lock = k, NEW g \in Entries
          PROVE  LET d == look[k].at IN kv'[d][g] = kv[d][g] /\ disk'[d][g] = disk[d][g] /\ from'[d][g] = from[d][g] /\ dir'[d].id = dir[d].id
      <4> DEFINE d == look[k].at
      <4>1. d # i /\ d # look[i].at /\ d \in Instances /\ dir' = dir
        BY <1>11, <2>o, <3>2, AdoptO
      <4> HIDE DEF d
      <4>2. kv'[d][g] = kv[d][g] /\ disk'[d][g] = disk[d][g]
        BY <1>11, <4>1, AdoptMoveF
      <4>3. UNCHANGED from
        BY <1>11, AdoptMoveE
      <4> QED
        BY <4>1, <4>2, <4>3 DEF d
    <3> QED
      BY <3>1, <3>2, LookedFrame
  <2> QED
    BY <2>s, <2>o
<1>12. CASE AdoptMoveFails(i)
  <2> SUFFICES ASSUME NEW k \in Instances PROVE Looked(k)'
    BY DEF LookedI
  <2>1. UNCHANGED <<kv, disk>> /\ from' = [from EXCEPT ![i][look[i].mv] = NoBuild] /\ look' = [look EXCEPT ![i] = [look[i] EXCEPT !.phase = "adopt", !.todo = @ \ {look[i].mv}, !.retain = TRUE]]
    BY <1>12 DEF AdoptMoveFails
  <2>t. from \in [Instances -> [Entries -> Build]] /\ look \in [Instances -> Look]
    BY DEF TypeOK
  <2>s. CASE k = i
    <3>1. look'[i].retain
      BY <2>1, <2>t DEF Look
    <3> QED
      BY <2>s, <3>1, LookedRests
  <2>o. CASE k # i
    <3>1. look'[k] = look[k] /\ srv'[k] = srv[k]
      BY <1>12, <2>o, AdoptO
    <3>2. ASSUME look[k].at \in Instances, ~Opened(look[k].at), dir[look[k].at].lock = k, NEW g \in Entries
          PROVE  LET d == look[k].at IN kv'[d][g] = kv[d][g] /\ disk'[d][g] = disk[d][g] /\ from'[d][g] = from[d][g] /\ dir'[d].id = dir[d].id
      <4> DEFINE d == look[k].at
      <4>1. d # i /\ d # look[i].at /\ d \in Instances /\ dir' = dir
        BY <1>12, <2>o, <3>2, AdoptO
      <4> HIDE DEF d
      <4>2. kv'[d][g] = kv[d][g] /\ disk'[d][g] = disk[d][g] /\ from'[d][g] = from[d][g]
        BY <4>1, <2>1, <2>t
      <4> QED
        BY <4>1, <4>2 DEF d
    <3> QED
      BY <3>1, <3>2, LookedFrame
  <2> QED
    BY <2>s, <2>o
<1>13. CASE AdoptBeside(i)
  <2> SUFFICES ASSUME NEW k \in Instances PROVE Looked(k)'
    BY DEF LookedI
  <2>1. UNCHANGED <<kv, disk, srv, dir>> /\ from' = [from EXCEPT ![look[i].at][look[i].mv] = NoBuild] /\ look[i].phase = "beside"
        /\ look' = [look EXCEPT ![i] = [look[i] EXCEPT !.phase = "adopt", !.todo = @ \ {look[i].mv}]]
    BY <1>13 DEF AdoptBeside
  <2>t. from \in [Instances -> [Entries -> Build]] /\ look \in [Instances -> Look] /\ look[i].at \in Instances
    BY <1>13, AdoptO DEF TypeOK
  <2>s. CASE k = i
    <3>1. look'[i].at = look[i].at /\ look'[i].sweep = look[i].sweep /\ look'[i].retain = look[i].retain /\ look'[i].refused = look[i].refused /\ look'[i].todo = look[i].todo \ {look[i].mv} /\ look'[i].unread = look[i].unread
      BY <2>1, <2>t DEF Look
    <3>2. kv[look[i].at][look[i].mv] = NoFile
      BY <2>1 DEF MovingI, Moving, Has
    <3>3. \A g \in Entries : g # look[i].mv => from'[look[i].at][g] = from[look[i].at][g]
      BY <2>1, <2>t
    <3> QED
      BY <2>1, <2>s, <3>1, <3>2, <3>3, LookedFrame
  <2>o. CASE k # i
    <3>1. look'[k] = look[k] /\ srv'[k] = srv[k]
      BY <1>13, <2>o, AdoptO
    <3>2. ASSUME look[k].at \in Instances, ~Opened(look[k].at), dir[look[k].at].lock = k, NEW g \in Entries
          PROVE  LET d == look[k].at IN kv'[d][g] = kv[d][g] /\ disk'[d][g] = disk[d][g] /\ from'[d][g] = from[d][g] /\ dir'[d].id = dir[d].id
      <4> DEFINE d == look[k].at
      <4>1. d # i /\ d # look[i].at /\ d \in Instances /\ dir' = dir
        BY <1>13, <2>o, <3>2, AdoptO
      <4> HIDE DEF d
      <4>2. kv'[d][g] = kv[d][g] /\ disk'[d][g] = disk[d][g] /\ from'[d][g] = from[d][g]
        BY <4>1, <2>1, <2>t
      <4> QED
        BY <4>1, <4>2 DEF d
    <3> QED
      BY <3>1, <3>2, LookedFrame
  <2> QED
    BY <2>s, <2>o
<1>14. CASE SweepLeave(i)
  <2> SUFFICES ASSUME NEW k \in Instances PROVE Looked(k)'
    BY DEF LookedI
  <2>1. UNCHANGED <<kv, disk, from, srv>> /\ SweepDone(i) /\ look' = [look EXCEPT ![i] = LookEnded(look[i])]
    BY <1>14, SweepLeaveE
  <2>2. \A d \in Instances : dir'[d].id = dir[d].id
    BY <2>1, SweepDoneE
  <2>3. CASE k = i
    BY <2>1, <2>3, LookEndedE, LookedRests
  <2>4. CASE k # i
    <3>1. look'[k] = look[k]
      BY <2>1, <2>4, LookEndedE
    <3> QED
      BY <2>1, <2>2, <3>1, LookedFrame
  <2> QED
    BY <2>3, <2>4
<1>15. CASE SweepCondemn(i)
  <2> SUFFICES ASSUME NEW k \in Instances PROVE Looked(k)'
    BY DEF LookedI
  <2>1. UNCHANGED <<kv, disk, from, srv>> /\ SweepDone(i) /\ look'[i].phase = "remove" /\ (k # i => look'[k] = look[k])
    BY <1>15, SweepCondemnE
  <2>2. \A d \in Instances : dir'[d].id = dir[d].id
    BY <2>1, SweepDoneE
  <2>3. CASE k = i
    BY <2>1, <2>3, LookedRests
  <2>4. CASE k # i
    BY <2>1, <2>2, <2>4, LookedFrame
  <2> QED
    BY <2>3, <2>4
<1>16. CASE SweepRemove(i)
  <2> SUFFICES ASSUME NEW k \in Instances PROVE Looked(k)'
    BY DEF LookedI
  <2>1. UNCHANGED srv /\ RemovedAll(look[i].at) /\ look[i].at \in Instances /\ look' = [look EXCEPT ![i] = LookEnded(look[i])]
    BY <1>16, SweepRemoveE
  <2>2. CASE k = i
    BY <2>1, <2>2, LookEndedE, LookedRests
  <2>3. CASE k # i
    <3>1. look'[k] = look[k]
      BY <2>1, <2>3, LookEndedE
    <3>2. ASSUME NEW d \in Instances, NEW g \in Entries, kv'[d][g] # NoFile
          PROVE  kv'[d][g] = kv[d][g] /\ disk'[d][g] = disk[d][g] /\ from'[d][g] = from[d][g] /\ dir'[d].id = dir[d].id
      <4>1. d # look[i].at
        BY <2>1, <3>2, RemovedAllE
      <4> QED
        BY <2>1, <4>1, RemovedAllE
    <3>3. look[k].at \in Instances =>
            LET d == look[k].at
            IN \A g \in Entries : kv'[d][g] # NoFile => kv'[d][g] = kv[d][g] /\ disk'[d][g] = disk[d][g] /\ from'[d][g] = from[d][g] /\ dir'[d].id = dir[d].id
      BY <3>2
    <3>4. srv'[k].cfg = srv[k].cfg
      BY <2>1
    <3> QED
      BY <3>1, <3>3, <3>4, LookedFrame
  <2> QED
    BY <2>2, <2>3
<1>17. ASSUME NEW e \in Entries, Evict(i, e) PROVE LookedI'
  <2> SUFFICES ASSUME NEW k \in Instances PROVE Looked(k)'
    BY DEF LookedI
  <2>1. Serving(i) /\ UNCHANGED <<srv, dir, look>> /\ Removed(i, e)
    BY <1>17, EvictE DEF Serving
  <2>2. ASSUME look[k].at \in Instances, ~Serving(look[k].at), NEW g \in Entries
        PROVE  LET d == look[k].at IN kv'[d][g] = kv[d][g] /\ disk'[d][g] = disk[d][g] /\ from'[d][g] = from[d][g] /\ dir'[d].id = dir[d].id
    <3> DEFINE d == look[k].at
    <3>1. d # i /\ d \in Instances
      BY <2>1, <2>2
    <3> HIDE DEF d
    <3>2. kv'[d][g] = kv[d][g] /\ disk'[d][g] = disk[d][g] /\ from'[d][g] = from[d][g]
      BY <2>1, <3>1, RemovedE
    <3> QED
      BY <2>1, <3>1, <3>2 DEF d
  <2> QED
    BY <2>1, <2>2, LookedFrame
<1>18. CASE OpenBad(i)
  <2> SUFFICES ASSUME NEW k \in Instances PROVE Looked(k)'
    BY DEF LookedI
  <2>1. Serving(i) /\ UNCHANGED <<srv, dir, look>> /\ stream[i].e \in Entries /\ Removed(i, stream[i].e)
    BY <1>18, OpenBadE
  <2>2. ASSUME look[k].at \in Instances, ~Serving(look[k].at), NEW g \in Entries
        PROVE  LET d == look[k].at IN kv'[d][g] = kv[d][g] /\ disk'[d][g] = disk[d][g] /\ from'[d][g] = from[d][g] /\ dir'[d].id = dir[d].id
    <3> DEFINE d == look[k].at
    <3>1. d # i /\ d \in Instances
      BY <2>1, <2>2
    <3> HIDE DEF d
    <3>2. kv'[d][g] = kv[d][g] /\ disk'[d][g] = disk[d][g] /\ from'[d][g] = from[d][g]
      BY <2>1, <3>1, RemovedE
    <3> QED
      BY <2>1, <3>1, <3>2 DEF d
  <2> QED
    BY <2>1, <2>2, LookedFrame
<1>19. CASE ReadBad(i)
  <2> SUFFICES ASSUME NEW k \in Instances PROVE Looked(k)'
    BY DEF LookedI
  <2>1. Serving(i) /\ UNCHANGED <<srv, dir, look>> /\ read[i].job.e \in Entries /\ Removed(i, read[i].job.e)
    BY <1>19, DroppedE
  <2>2. ASSUME look[k].at \in Instances, ~Serving(look[k].at), NEW g \in Entries
        PROVE  LET d == look[k].at IN kv'[d][g] = kv[d][g] /\ disk'[d][g] = disk[d][g] /\ from'[d][g] = from[d][g] /\ dir'[d].id = dir[d].id
    <3> DEFINE d == look[k].at
    <3>1. d # i /\ d \in Instances
      BY <2>1, <2>2
    <3> HIDE DEF d
    <3>2. kv'[d][g] = kv[d][g] /\ disk'[d][g] = disk[d][g] /\ from'[d][g] = from[d][g]
      BY <2>1, <3>1, RemovedE
    <3> QED
      BY <2>1, <3>1, <3>2 DEF d
  <2> QED
    BY <2>1, <2>2, LookedFrame
<1>20. CASE RewriteField(i)
  <2> SUFFICES ASSUME NEW k \in Instances PROVE Looked(k)'
    BY DEF LookedI
  <2>1. Serving(i) /\ UNCHANGED <<srv, dir, look, disk, from>>
    BY <1>20, RewriteFieldE
  <2>2. ASSUME look[k].at \in Instances, ~Serving(look[k].at), NEW g \in Entries
        PROVE  LET d == look[k].at IN kv'[d][g] = kv[d][g] /\ disk'[d][g] = disk[d][g] /\ from'[d][g] = from[d][g] /\ dir'[d].id = dir[d].id
    <3> DEFINE d == look[k].at
    <3>1. d # i /\ d \in Instances
      BY <2>1, <2>2
    <3> HIDE DEF d
    <3>2. kv'[d][g] = kv[d][g] /\ disk'[d][g] = disk[d][g] /\ from'[d][g] = from[d][g] /\ dir'[d].id = dir[d].id
      BY <1>20, <2>1, <3>1, RewriteFieldF
    <3> QED
      BY <3>2 DEF d
  <2> QED
    BY <2>1, <2>2, LookedFrame
<1>21. CASE RewriteSum(i)
  <2> SUFFICES ASSUME NEW k \in Instances PROVE Looked(k)'
    BY DEF LookedI
  <2>1. Serving(i) /\ UNCHANGED <<srv, dir, look, disk, from>>
    BY <1>21, RewriteSumE
  <2>2. ASSUME look[k].at \in Instances, ~Serving(look[k].at), NEW g \in Entries
        PROVE  LET d == look[k].at IN kv'[d][g] = kv[d][g] /\ disk'[d][g] = disk[d][g] /\ from'[d][g] = from[d][g] /\ dir'[d].id = dir[d].id
    <3> DEFINE d == look[k].at
    <3>1. d # i /\ d \in Instances
      BY <2>1, <2>2
    <3> HIDE DEF d
    <3>2. kv'[d][g] = kv[d][g] /\ disk'[d][g] = disk[d][g] /\ from'[d][g] = from[d][g] /\ dir'[d].id = dir[d].id
      BY <1>21, <2>1, <3>1, RewriteSumE
    <3> QED
      BY <3>2 DEF d
  <2> QED
    BY <2>1, <2>2, LookedFrame
<1>22. CASE RewriteSync(i)
  <2> SUFFICES ASSUME NEW k \in Instances PROVE Looked(k)'
    BY DEF LookedI
  <2>1. Serving(i) /\ UNCHANGED <<srv, look, kv, from, dir>> /\ (\E e, h : disk' = [disk EXCEPT ![i][e] = h]) /\ disk \in [Instances -> [Entries -> Header]]
    BY <1>22 DEF RewriteSync, Rewriting, TypeOK
  <2>2. ASSUME look[k].at \in Instances, ~Serving(look[k].at), NEW g \in Entries
        PROVE  LET d == look[k].at IN kv'[d][g] = kv[d][g] /\ disk'[d][g] = disk[d][g] /\ from'[d][g] = from[d][g] /\ dir'[d].id = dir[d].id
    <3> DEFINE d == look[k].at
    <3>1. d # i /\ d \in Instances
      BY <2>1, <2>2
    <3> HIDE DEF d
    <3>2. kv'[d][g] = kv[d][g] /\ disk'[d][g] = disk[d][g] /\ from'[d][g] = from[d][g] /\ dir'[d].id = dir[d].id
      BY <2>1, <3>1, SMT
    <3> QED
      BY <3>2 DEF d
  <2> QED
    BY <2>1, <2>2, LookedFrame
<1>23. CASE RewriteBeside(i)
  <2> SUFFICES ASSUME NEW k \in Instances PROVE Looked(k)'
    BY DEF LookedI
  <2>1. Serving(i) /\ UNCHANGED <<srv, look, kv, disk, dir>> /\ (\E e, h : from' = [from EXCEPT ![i][e] = h]) /\ from \in [Instances -> [Entries -> Build]]
    BY <1>23 DEF RewriteBeside, Rewriting, TypeOK
  <2>2. ASSUME look[k].at \in Instances, ~Serving(look[k].at), NEW g \in Entries
        PROVE  LET d == look[k].at IN kv'[d][g] = kv[d][g] /\ disk'[d][g] = disk[d][g] /\ from'[d][g] = from[d][g] /\ dir'[d].id = dir[d].id
    <3> DEFINE d == look[k].at
    <3>1. d # i /\ d \in Instances
      BY <2>1, <2>2
    <3> HIDE DEF d
    <3>2. kv'[d][g] = kv[d][g] /\ disk'[d][g] = disk[d][g] /\ from'[d][g] = from[d][g] /\ dir'[d].id = dir[d].id
      BY <2>1, <3>1, SMT
    <3> QED
      BY <3>2 DEF d
  <2> QED
    BY <2>1, <2>2, LookedFrame
<1>24. CASE ClaimLost(i)
  <2> SUFFICES ASSUME NEW k \in Instances PROVE Looked(k)'
    BY DEF LookedI
  <2>1. Serving(i) /\ UNCHANGED <<srv, dir, look>> /\ read[i].job.e \in Entries /\ Removed(i, read[i].job.e)
    BY <1>24, DroppedE
  <2>2. ASSUME look[k].at \in Instances, ~Serving(look[k].at), NEW g \in Entries
        PROVE  LET d == look[k].at IN kv'[d][g] = kv[d][g] /\ disk'[d][g] = disk[d][g] /\ from'[d][g] = from[d][g] /\ dir'[d].id = dir[d].id
    <3> DEFINE d == look[k].at
    <3>1. d # i /\ d \in Instances
      BY <2>1, <2>2
    <3> HIDE DEF d
    <3>2. kv'[d][g] = kv[d][g] /\ disk'[d][g] = disk[d][g] /\ from'[d][g] = from[d][g]
      BY <2>1, <3>1, RemovedE
    <3> QED
      BY <2>1, <3>1, <3>2 DEF d
  <2> QED
    BY <2>1, <2>2, LookedFrame
<1>25. CASE ClaimKept(i)
  <2> SUFFICES ASSUME NEW k \in Instances PROVE Looked(k)'
    BY DEF LookedI
  <2>1. Serving(i) /\ UNCHANGED <<srv, dir, look, from>>
    BY <1>25, ClaimKeptE
  <2>2. ASSUME look[k].at \in Instances, ~Serving(look[k].at), NEW g \in Entries
        PROVE  LET d == look[k].at IN kv'[d][g] = kv[d][g] /\ disk'[d][g] = disk[d][g] /\ from'[d][g] = from[d][g] /\ dir'[d].id = dir[d].id
    <3> DEFINE d == look[k].at
    <3>1. d # i /\ d \in Instances
      BY <2>1, <2>2
    <3> HIDE DEF d
    <3>2. kv'[d][g] = kv[d][g] /\ disk'[d][g] = disk[d][g] /\ from'[d][g] = from[d][g] /\ dir'[d].id = dir[d].id
      BY <1>25, <2>1, <3>1, ClaimKeptE
    <3> QED
      BY <3>2 DEF d
  <2> QED
    BY <2>1, <2>2, LookedFrame
<1>26. CASE TakePut(i)
  <2> SUFFICES ASSUME NEW k \in Instances PROVE Looked(k)'
    BY DEF LookedI
  <2>1. Serving(i) /\ UNCHANGED <<srv, look, kv, from, disk>>
    BY <1>26, TakePutE
  <2>2. ASSUME look[k].at \in Instances, ~Serving(look[k].at), NEW g \in Entries
        PROVE  LET d == look[k].at IN kv'[d][g] = kv[d][g] /\ disk'[d][g] = disk[d][g] /\ from'[d][g] = from[d][g] /\ dir'[d].id = dir[d].id
    <3> DEFINE d == look[k].at
    <3>1. d # i /\ d \in Instances
      BY <2>1, <2>2
    <3> HIDE DEF d
    <3>2. kv'[d][g] = kv[d][g] /\ disk'[d][g] = disk[d][g] /\ from'[d][g] = from[d][g] /\ dir'[d].id = dir[d].id
      BY <1>26, <2>1, <3>1, TakePutE
    <3> QED
      BY <3>2 DEF d
  <2> QED
    BY <2>1, <2>2, LookedFrame
<1>27. CASE PutRename(i)
  <2> SUFFICES ASSUME NEW k \in Instances PROVE Looked(k)'
    BY DEF LookedI
  <2>1. Serving(i) /\ UNCHANGED <<srv, look, from, disk>>
    BY <1>27, PutRenameE
  <2>2. ASSUME look[k].at \in Instances, ~Serving(look[k].at), NEW g \in Entries
        PROVE  LET d == look[k].at IN kv'[d][g] = kv[d][g] /\ disk'[d][g] = disk[d][g] /\ from'[d][g] = from[d][g] /\ dir'[d].id = dir[d].id
    <3> DEFINE d == look[k].at
    <3>1. d # i /\ d \in Instances
      BY <2>1, <2>2
    <3> HIDE DEF d
    <3>2. kv'[d][g] = kv[d][g] /\ disk'[d][g] = disk[d][g] /\ from'[d][g] = from[d][g] /\ dir'[d].id = dir[d].id
      BY <1>27, <2>1, <3>1, PutRenameE
    <3> QED
      BY <3>2 DEF d
  <2> QED
    BY <2>1, <2>2, LookedFrame
<1>28. CASE PutFails(i)
  <2> SUFFICES ASSUME NEW k \in Instances PROVE Looked(k)'
    BY DEF LookedI
  <2>1. Serving(i) /\ UNCHANGED <<srv, look, kv, from, disk>> /\ (\E v : dir' = [dir EXCEPT ![i].tmp = v]) /\ dir \in [Instances -> Directory]
    BY <1>28 DEF PutFails, Idle, Untemped, files, TypeOK
  <2>2. ASSUME look[k].at \in Instances, ~Serving(look[k].at), NEW g \in Entries
        PROVE  LET d == look[k].at IN kv'[d][g] = kv[d][g] /\ disk'[d][g] = disk[d][g] /\ from'[d][g] = from[d][g] /\ dir'[d].id = dir[d].id
    <3> DEFINE d == look[k].at
    <3>1. d # i /\ d \in Instances
      BY <2>1, <2>2
    <3> HIDE DEF d
    <3>2. kv'[d][g] = kv[d][g] /\ disk'[d][g] = disk[d][g] /\ from'[d][g] = from[d][g] /\ dir'[d].id = dir[d].id
      BY <2>1, <3>1, SMT
    <3> QED
      BY <3>2 DEF d
  <2> QED
    BY <2>1, <2>2, LookedFrame
<1>29. CASE PutCommit(i)
  <2> SUFFICES ASSUME NEW k \in Instances PROVE Looked(k)'
    BY DEF LookedI
  <2>1. Serving(i) /\ UNCHANGED <<srv, look, kv, from, dir>> /\ (\E e, h : disk' = [disk EXCEPT ![i][e] = h]) /\ disk \in [Instances -> [Entries -> Header]]
    BY <1>29 DEF PutCommit, Idle, TypeOK
  <2>2. ASSUME look[k].at \in Instances, ~Serving(look[k].at), NEW g \in Entries
        PROVE  LET d == look[k].at IN kv'[d][g] = kv[d][g] /\ disk'[d][g] = disk[d][g] /\ from'[d][g] = from[d][g] /\ dir'[d].id = dir[d].id
    <3> DEFINE d == look[k].at
    <3>1. d # i /\ d \in Instances
      BY <2>1, <2>2
    <3> HIDE DEF d
    <3>2. kv'[d][g] = kv[d][g] /\ disk'[d][g] = disk[d][g] /\ from'[d][g] = from[d][g] /\ dir'[d].id = dir[d].id
      BY <2>1, <3>1, SMT
    <3> QED
      BY <3>2 DEF d
  <2> QED
    BY <2>1, <2>2, LookedFrame
<1>30. CASE PutCancelled(i)
  <2> SUFFICES ASSUME NEW k \in Instances PROVE Looked(k)'
    BY DEF LookedI
  <2>1. Serving(i) /\ UNCHANGED <<srv, dir, look>> /\ put[i].job.e \in Entries /\ Removed(i, put[i].job.e)
    BY <1>30, JobT DEF PutCancelled, Idle
  <2>2. ASSUME look[k].at \in Instances, ~Serving(look[k].at), NEW g \in Entries
        PROVE  LET d == look[k].at IN kv'[d][g] = kv[d][g] /\ disk'[d][g] = disk[d][g] /\ from'[d][g] = from[d][g] /\ dir'[d].id = dir[d].id
    <3> DEFINE d == look[k].at
    <3>1. d # i /\ d \in Instances
      BY <2>1, <2>2
    <3> HIDE DEF d
    <3>2. kv'[d][g] = kv[d][g] /\ disk'[d][g] = disk[d][g] /\ from'[d][g] = from[d][g]
      BY <2>1, <3>1, RemovedE
    <3> QED
      BY <2>1, <3>1, <3>2 DEF d
  <2> QED
    BY <2>1, <2>2, LookedFrame
<1>31. CASE IdleSweep(i)
  BY SMTT(60), <1>31 DEF DiskStoreAssumption, TypeOK, LookedI, IdleSweep, Adopts, Begins, Directories, Files, Idle, Keeps, Look, Looked, Mine, NoFile,
     Serving, WholeFor, files, ghosts, io, store
<1>32. CASE Stop(i)
  <2> SUFFICES ASSUME NEW k \in Instances PROVE Looked(k)'
    BY DEF LookedI
  <2>1. UNCHANGED <<look, kv, disk, from, dir>> /\ srv'[k].cfg = srv[k].cfg
    BY <1>32, StopE, WorkE
  <2> QED
    BY <2>1, LookedFrame
<1>33. CASE Leave(i)
  BY SMTT(60), <1>33 DEF DiskStoreAssumption, TypeOK, LookedI, Leave, Adopts, Directory, Files, Goes, Idle, Keeps, Locks, LocksI, Look, Looked, Memory, Mine,
     NoFile, NoLook, NoRead, NoStream, NoWrite, Opened, Read, Server, Serving, Stream, Unmarked, WholeFor, Write, files, ghosts
<1>34. CASE RemoveOwn(i)
  BY SMTT(60), <1>34 DEF DiskStoreAssumption, TypeOK, LookedI, RemoveOwn, Adopts, Directory, Files, Goes, Keeps, Locks, LocksI, Looked, Mine, NoDirectory,
     NoFile, NoFiles, Opened, RemovedAll, Server, Unmarked, WholeFor, ghosts, io, store
<1>35. CASE Kill(i)
  <2> SUFFICES ASSUME NEW k \in Instances PROVE Looked(k)'
    BY DEF LookedI
  <2>1. CASE k = i
    BY <1>35, <2>1, KillE, LookedRests DEF NoLook
  <2>2. CASE k # i
    <3>1. UNCHANGED <<kv, disk, from>> /\ look'[k] = look[k] /\ srv'[k] = srv[k] /\ (\A d \in Instances : dir'[d].id = dir[d].id)
      BY <1>35, <2>2, KillE
    <3> QED
      BY <3>1, LookedFrame
  <2> QED
    BY <2>1, <2>2
<1>36. CASE OpenWhole(i) \/ (\E e \in Entries : Put(i, e) \/ Get(i, e) \/ Claim(i, e) \/ Cancel(i, e) \/ OpenEntry(i, e))
  <2>1. UNCHANGED <<look, kv, disk, from, srv, dir>>
    BY <1>36 DEF Put, Get, Claim, Cancel, OpenEntry, OpenWhole, files
  <2> QED
    BY <2>1, LookedSame
<1>37. CASE TakeRead(i) \/ ReadWhole(i) \/ ClaimBegins(i) \/ RewriteFails(i) \/ SettleFails(i) \/ RefusePut(i)
  <2>1. UNCHANGED <<look, kv, disk, from, srv, dir>>
    BY <1>37 DEF TakeRead, ReadWhole, ClaimBegins, RewriteFails, SettleFails, RefusePut, files
  <2> QED
    BY <2>1, LookedSame
<1>38. CASE PutWrite(i)
  <2>1. UNCHANGED <<look, kv, disk, from, srv, dir>>
    BY <1>38 DEF PutWrite, files
  <2> QED
    BY <2>1, LookedSame
<1> QED
  BY <1>1, <1>2, <1>3, <1>4, <1>5, <1>6, <1>7, <1>8, <1>9, <1>10, <1>11, <1>12, <1>13, <1>14, <1>15, <1>16, <1>17, <1>18, <1>19, <1>20, <1>21,
     <1>22, <1>23, <1>24, <1>25, <1>26, <1>27, <1>28, <1>29, <1>30, <1>31, <1>32, <1>33, <1>34, <1>35, <1>36, <1>37, <1>38 DEF Acts, Start, Sweep,
     Call, ReadIO, ClaimSettle, PutIO, End


-----------------------------------------------------------------------------
\* A power loss, which ends every server and leaves its files torn, and a step that changes nothing but a directory's age.
\* Every header is torn between what was on the disk and what was written; nothing a server held in memory is left.
LEMMA PowerLossKeeps ==
  ASSUME DiskStoreAssumption, TypeOK, LocksI, EmptyI, PutI, OnceI, ProvedI, HeadedI, KnownI, ClaimingI, MovingI, LookedI, PowerLoss
  PROVE  TypeOK' /\ LocksI' /\ EmptyI' /\ PutI' /\ OnceI' /\ ProvedI' /\ HeadedI' /\ KnownI' /\ ClaimingI' /\ MovingI' /\ LookedI'
<1>1. TypeOK'
  <2>1. Unlocked(Instances) /\ Memory(Instances) /\ disk' = kv' /\ UNCHANGED <<from, proved, weak>>
    BY DEF PowerLoss, ghosts
  <2>2. dir' \in [Instances -> Directory]
    BY <2>1, UnlockedT
  <2>3. srv' \in [Instances -> Server]
    <3>1. srv' = [i \in Instances |-> IF Live(i) THEN [srv[i] EXCEPT !.pc = "ended"] ELSE srv[i]]
      BY DEF PowerLoss
    <3>2. \A i \in Instances : srv[i] \in Server
      BY TypeAt
    <3>3. \A i \in Instances : [srv[i] EXCEPT !.pc = "ended"] \in Server
      BY <3>2 DEF Server
    <3> QED
      BY <3>1, <3>2, <3>3
  <2>4. kv' \in [Instances -> [Entries -> Header]]
    <3>1. PICK pick \in [Loose -> {"new", "old", "field", "sum"}] :
            kv' = [d \in Instances |-> [e \in Entries |-> IF <<d, e>> \in Loose THEN Left(kv[d][e], disk[d][e], pick[<<d, e>>]) ELSE kv[d][e]]]
      BY DEF PowerLoss
    <3>2. ASSUME NEW d \in Instances, NEW e \in Entries
          PROVE (IF <<d, e>> \in Loose THEN Left(kv[d][e], disk[d][e], pick[<<d, e>>]) ELSE kv[d][e]) \in Header
      <4>1. kv[d][e] \in Header /\ disk[d][e] \in Header
        BY DEF TypeOK
      <4>2. Left(kv[d][e], disk[d][e], pick[<<d, e>>]) \in Header
        BY <4>1 DEF Left, Header
      <4> QED
        BY <4>1, <4>2
    <3> QED
      BY <3>1, <3>2
  <2>5. disk' \in [Instances -> [Entries -> Header]] /\ from' \in [Instances -> [Entries -> Build]] /\ proved' \in [Entries -> SUBSET Builds] /\ weak' \subseteq Entries
    BY <2>1, <2>4 DEF TypeOK
  <2> QED
    BY <2>1, <2>2, <2>3, <2>4, <2>5, MemoryT DEF TypeOK
<1>2. LocksI'
  <2> SUFFICES ASSUME NEW k \in Instances PROVE Locks(k)'
    BY DEF LocksI
  <2>1. ~Opened(k)' /\ look'[k] = NoLook /\ jobs'[k] = <<>> /\ put'[k] = NoWrite /\ read'[k] = NoRead /\ stream'[k] = NoStream /\ dir'[k].kept = dir[k].kept
        /\ srv'[k].pc = IF Live(k) THEN "ended" ELSE srv[k].pc
    BY PowerLossE
  <2>2. dir'[k].kept => srv'[k].pc = "ended"
    BY <2>1 DEF LocksI, Locks, Live
  <2> QED
    BY <2>1, <2>2 DEF Locks, NoLook, NoWrite, NoRead, NoStream, Opened
<1>3. EmptyI'
  <2> SUFFICES ASSUME NEW k \in Instances, NEW g \in Entries PROVE Empty(k, g)'
    BY DEF EmptyI
  <2>1. Empty(k, g)
    BY DEF EmptyI
  <2>2. /\ dir'[k].there = dir[k].there /\ dir'[k].id = dir[k].id /\ (Fresh(k)' => Fresh(k)) /\ sizes'[k] = {} /\ foreign'[k] = Unmarked /\ from' = from
        /\ disk'[k][g] = kv'[k][g] /\ (kv[k][g] = NoFile /\ disk[k][g] = NoFile => kv'[k][g] = NoFile)
    BY SMTT(60), PowerLossE
  <2> QED
    BY <2>1, <2>2 DEF Empty, Has, Unmarked
<1>4. PutI'
  <2> SUFFICES ASSUME NEW k \in Instances, NEW g \in Entries PROVE OnePut(k, g)'
    BY DEF PutI
  <2>1. sizes'[k] = {} /\ jobs'[k] = <<>> /\ put'[k] = NoWrite /\ read'[k] = NoRead /\ stream'[k] = NoStream
    BY PowerLossE
  <2>2. ~Puts(k, g)' /\ ~Queues(k, g)' /\ ~Writes(k, g)' /\ ~Touches(k, g)'
    BY <2>1 DEF Puts, Queues, Writes, Touches, NoWrite, NoRead, NoStream
  <2> QED
    BY <2>1, <2>2 DEF OnePut
<1>5. OnceI'
  <2> SUFFICES ASSUME NEW g \in Entries PROVE Once(g)'
    BY DEF OnceI
  <2>1. \A k \in Instances : jobs'[k] = <<>> /\ put'[k] = NoWrite
    BY PowerLossE
  <2>2. \A k \in Instances : ~Puts(k, g)'
    BY <2>1 DEF Puts, NoWrite
  <2>3. ASSUME NEW d \in Instances, Has(d, g)' PROVE Has(d, g)
    <3>1. kv[d][g] = NoFile => disk[d][g] = NoFile
      BY DEF EmptyI, Empty, Has
    <3>2. kv[d][g] = NoFile /\ disk[d][g] = NoFile => kv'[d][g] = NoFile
      BY PowerLossE
    <3> QED
      BY <2>3, <3>1, <3>2 DEF Has
  <2> QED
    BY <2>2, <2>3, OnceFrame
<1>6. ProvedI'
  <2> SUFFICES ASSUME NEW k \in Instances, NEW g \in Entries PROVE Proved(k, g)'
    BY DEF ProvedI
  <2>1. Proved(k, g)
    BY DEF ProvedI
  <2>2. jobs'[k] = <<>> /\ read'[k] = NoRead /\ proved' = proved /\ disk'[k][g] = kv'[k][g]
    BY PowerLossE
  <2>3. \/ kv'[k][g] = kv[k][g] \/ kv'[k][g] = disk[k][g]
        \/ kv[k][g] # NoFile /\ disk[k][g] # NoFile /\ kv'[k][g].s \in {kv[k][g].s, disk[k][g].s}
    <3>1. kv[k][g] \in Header /\ disk[k][g] \in Header
      BY DEF TypeOK
    <3> QED
      BY <3>1, PowerLossE
  <2>4. ~Claims(k, g)'
    BY <2>2 DEF Claims, NoRead
  <2>5. kv'[k][g] # NoFile => kv'[k][g].s \in proved[g]
    BY <2>1, <2>3 DEF Proved, Has
  <2> QED
    BY <2>2, <2>4, <2>5 DEF Proved, Has
<1>7. HeadedI'
  <2> SUFFICES ASSUME NEW k \in Instances, NEW g \in Entries PROVE Headed(k, g)'
    BY DEF HeadedI
  <2>1. Headed(k, g)
    BY DEF HeadedI
  <2>2. disk'[k][g] = kv'[k][g] /\ dir'[k].id = dir[k].id /\ from'[k][g] = from[k][g] /\ weak' = weak
    BY PowerLossE
  <2>3. \/ kv'[k][g] = kv[k][g] \/ kv'[k][g] = disk[k][g]
        \/ /\ kv[k][g] # NoFile /\ disk[k][g] # NoFile
           /\ kv'[k][g] \in {[f |-> kv[k][g].f, s |-> disk[k][g].s], [f |-> disk[k][g].f, s |-> kv[k][g].s]}
    BY PowerLossE
  <2>4. kv[k][g] \in Header /\ disk[k][g] \in Header
    BY DEF TypeOK
  <2>5. kv[k][g] = NoFile => kv'[k][g] = NoFile
    BY <2>3 DEF EmptyI, Empty, Has
  <2>6. CASE kv[k][g] = NoFile
    BY <2>5, <2>6, HeadedGone
  <2>7. CASE g \in weak
    BY <2>2, <2>7 DEF Headed
  <2>8. CASE kv[k][g] # NoFile /\ g \notin weak /\ from[k][g] = NoBuild
    <3>1. kv[k][g].f = kv[k][g].s /\ disk[k][g] \in {kv[k][g], NoFile}
      BY <2>1, <2>8 DEF Headed, Has
    <3>2. kv[k][g] = [f |-> kv[k][g].f, s |-> kv[k][g].s]
      BY <2>4 DEF Header
    <3>3. kv'[k][g] \in {kv[k][g], NoFile}
      BY <2>3, <3>1, <3>2
    <3> QED
      BY <2>2, <2>8, <3>1, <3>3 DEF Headed, Has
  <2>9. CASE kv[k][g] # NoFile /\ g \notin weak /\ from[k][g] # NoBuild
    <3> DEFINE a == from[k][g]  b == dir[k].id
    <3>1. /\ a # b /\ kv[k][g].s \in {a, b}
          /\ disk[k][g] \in {kv[k][g], NoFile} \/ disk[k][g] = WholeFor(a)
      BY <2>1, <2>9 DEF Headed, Has
    <3>2. disk[k][g] # NoFile => disk[k][g].s \in {a, b}
      BY <3>1 DEF WholeFor
    <3>3. kv'[k][g] # NoFile => kv'[k][g].s \in {a, b}
      BY SMTT(60), <2>3, <3>1, <3>2
    <3> HIDE DEF a, b
    <3> QED
      BY <2>2, <2>9, <3>1, <3>3 DEF Headed, Has, a, b
  <2> QED
    BY <2>6, <2>7, <2>8, <2>9
<1>8. KnownI'
  <2> SUFFICES ASSUME NEW k \in Instances, NEW g \in Entries PROVE Known(k, g)'
    BY DEF KnownI
  <2>1. ~Opened(k)'
    BY PowerLossE
  <2> QED
    BY <2>1 DEF Known
<1>9. ClaimingI'
  <2> SUFFICES ASSUME NEW k \in Instances PROVE Claiming(k)'
    BY DEF ClaimingI
  <2>1. read'[k].at = "none"
    BY PowerLossE DEF NoRead
  <2> QED
    BY <2>1, ClaimingEnds
<1>10. MovingI'
  <2> SUFFICES ASSUME NEW k \in Instances PROVE Moving(k)'
    BY DEF MovingI
  <2>1. look'[k].phase = "adopt"
    BY PowerLossE DEF NoLook
  <2> QED
    BY <2>1, MovingRests
<1>11. LookedI'
  <2> SUFFICES ASSUME NEW k \in Instances PROVE Looked(k)'
    BY DEF LookedI
  <2>1. look'[k].at = Nobody
    BY PowerLossE DEF NoLook
  <2> QED
    BY <2>1, LookedRests
<1> QED
  BY <1>1, <1>2, <1>3, <1>4, <1>5, <1>6, <1>7, <1>8, <1>9, <1>10, <1>11

\* A step that leaves all but a directory's age keeps every part.
LEMMA QuietKeeps ==
  ASSUME DiskStoreAssumption, TypeOK, LocksI, EmptyI, PutI, OnceI, ProvedI, HeadedI, KnownI, ClaimingI, MovingI, LookedI,
         \A d \in Instances : dir'[d].there = dir[d].there /\ dir'[d].kept = dir[d].kept /\ dir'[d].id = dir[d].id /\ dir'[d].lock = dir[d].lock,
         UNCHANGED <<kv, from, disk, srv, sizes, foreign, jobs, put, read, stream, look, proved, weak>>
  PROVE  LocksI' /\ EmptyI' /\ PutI' /\ OnceI' /\ ProvedI' /\ HeadedI' /\ KnownI' /\ ClaimingI' /\ MovingI' /\ LookedI'
<1>1. LocksI'
  <2> SUFFICES ASSUME NEW k \in Instances PROVE Locks(k)'
    BY DEF LocksI
  <2>1. look[k].at \in Instances \cup {Nobody}
    BY LookedT
  <2>2. Locks(k)
    BY DEF LocksI
  <2>3. look[k].at # Nobody => dir'[look[k].at].lock = dir[look[k].at].lock
    BY <2>1
  <2> QED
    BY <2>2, <2>3 DEF Locks, Opened, Adopts, Serving, Mine
<1>2. EmptyI'
  BY DEF EmptyI, Empty, Has, Fresh
<1>3. PutI'
  BY DEF PutI, OnePut, Queues, Writes, Touches, Puts, Mine
<1>4. OnceI'
  BY DEF OnceI, Once, Puts, Renamed, Has
<1>5. ProvedI'
  BY DEF ProvedI, Proved, Has, Claims, Mine
<1>6. HeadedI'
  BY DEF HeadedI, Headed, Syncing, Has
<1>7. KnownI'
  BY DEF KnownI, Known, Fresh, Opened, Has, Renamed, Moves, Mine
<1>8. ClaimingI'
  BY DEF ClaimingI, Claiming, Has, Mine
<1>9. MovingI'
  BY DEF MovingI, Moving, Has
<1>10. LookedI'
  <2> SUFFICES ASSUME NEW k \in Instances PROVE Looked(k)'
    BY DEF LookedI
  <2> QED
    BY LookedFrame
<1> QED
  BY <1>1, <1>2, <1>3, <1>4, <1>5, <1>6, <1>7, <1>8, <1>9, <1>10

\* The age limit, typed.
LEMMA ExpireTyped == ASSUME TypeOK, NEW x \in Instances, Expire(x) PROVE TypeOK'
<1>1. dir' = [dir EXCEPT ![x].old = TRUE] /\ dir \in [Instances -> Directory]
  BY DEF TypeOK, Expire
<1>2. dir' \in [Instances -> Directory]
  BY ZenonT(60), <1>1 DEF Directory
<1> QED
  BY <1>2 DEF TypeOK, Expire, files, store, io, ghosts

\* The parts hold before any server has started.
LEMMA InitHolds ==
  ASSUME DiskStoreAssumption, Init
  PROVE  TypeOK /\ LocksI /\ EmptyI /\ PutI /\ OnceI /\ ProvedI /\ HeadedI /\ KnownI /\ ClaimingI /\ MovingI /\ LookedI
<1>1. \A k \in Instances : /\ dir[k] = NoDirectory /\ kv[k] = NoFiles /\ from[k] = Unmarked /\ disk[k] = NoFiles /\ srv[k].pc = "off"
                            /\ sizes[k] = {} /\ foreign[k] = Unmarked /\ jobs[k] = <<>> /\ put[k] = NoWrite /\ read[k] = NoRead /\ stream[k] = NoStream /\ look[k] = NoLook
  BY DEF Init
<1>2. \A k \in Instances, g \in Entries : kv[k][g] = NoFile /\ disk[k][g] = NoFile /\ from[k][g] = NoBuild /\ foreign[k][g] = NoBuild
  BY <1>1 DEF NoFiles, Unmarked
<1>3. \A k \in Instances : /\ dir[k].kept = FALSE /\ dir[k].id = NoBuild /\ look[k].left = {} /\ look[k].at = Nobody /\ look[k].sweep = "no" /\ look[k].phase = "adopt" /\ look[k].todo = {}
                            /\ ~look[k].took /\ put[k].at = "none" /\ read[k].at = "none" /\ ~stream[k].on
  BY <1>1 DEF NoDirectory, NoLook, NoWrite, NoRead, NoStream
<1>4. TypeOK
  <2>1. srv \in [Instances -> Server]
    <3>1. \A k \in Instances : (CHOOSE c \in Configs[k] : TRUE) \in Config
      BY DEF DiskStoreAssumption, Config
    <3> QED
      BY <3>1 DEF Init, Server
  <2>2. dir \in [Instances -> Directory] /\ put \in [Instances -> Write] /\ read \in [Instances -> Read] /\ stream \in [Instances -> Stream] /\ look \in [Instances -> Look]
    BY NoneT DEF Init
  <2>3. kv \in [Instances -> [Entries -> Header]] /\ from \in [Instances -> [Entries -> Build]] /\ disk \in [Instances -> [Entries -> Header]] /\ foreign \in [Instances -> [Entries -> Build]]
    BY NoFileT DEF Init
  <2>4. sizes \in [Instances -> SUBSET Entries] /\ claimed \in [Instances -> SUBSET Entries] /\ proved \in [Entries -> SUBSET Builds] /\ weak \subseteq Entries
    BY DEF Init
  <2>5. jobs \in [Instances -> Seq(Job)] /\ \A i \in Instances : Len(jobs[i]) <= MaxJobs
    BY DEF Init, DiskStoreAssumption
  <2> QED
    BY <2>1, <2>2, <2>3, <2>4, <2>5 DEF TypeOK
<1>5. LocksI
  BY <1>1, <1>3 DEF LocksI, Locks, Opened, Serving, Adopts
<1>6. EmptyI
  BY <1>1, <1>2, <1>3 DEF EmptyI, Empty, Has
<1>7. PutI
  BY <1>1, <1>3 DEF PutI, OnePut, Queues, Writes, Touches, Puts
<1>8. OnceI
  BY <1>1, <1>2, <1>3 DEF OnceI, Once, Has, Puts
<1>9. ProvedI
  BY <1>1, <1>2, <1>3 DEF ProvedI, Proved, Has, Claims
<1>10. HeadedI
  BY <1>2 DEF HeadedI, Headed, Has
<1>11. KnownI
  BY <1>1 DEF KnownI, Known, Opened
<1>12. ClaimingI /\ MovingI
  BY <1>3 DEF ClaimingI, Claiming, MovingI, Moving
<1>13. LookedI
  BY <1>3 DEF LookedI, Looked
<1> QED
  BY <1>4, <1>5, <1>6, <1>7, <1>8, <1>9, <1>10, <1>11, <1>12, <1>13

\* No step of a server takes an entry that a kept directory has on the disk, nor gives that directory up but where it failed to read that entry's header.
LEMMA EntriesKept ==
  ASSUME DiskStoreAssumption, TypeOK, LocksI, EmptyI, PutI, OnceI, ProvedI, HeadedI, KnownI, ClaimingI, MovingI, LookedI,
         NEW i \in Instances, Acts(i), NEW d \in Instances, NEW g \in Entries, dir[d].kept, ~dir[d].old, ~Condemned(d), g \in Keeps(d)
  PROVE  (\E k \in Instances : kv'[k][g] # NoFile) /\ (~Condemned(d)' \/ Unread(d, g))
<1>1. CASE KeepIdentity(i)
  <2>1. UNCHANGED kv
    BY <1>1 DEF KeepIdentity, files
  <2>2. ~Condemned(d)'
    <3>1. \A k \in Instances : look'[k].phase = "remove" => look'[k].at # d \/ (look[k].phase = "remove" /\ look'[k].at = look[k].at)
      BY <1>1, TypeAt DEF KeepIdentity, Begins, TypeOK, Look
    <3> QED
      BY <3>1, NotCondemned
  <2> QED
    BY <2>1, <2>2, KeptE
<1>2. ASSUME NEW c \in Instances, SweepNext(i, c)
     PROVE  (\E k \in Instances : kv'[k][g] # NoFile) /\ ~Condemned(d)'
  <2>1. UNCHANGED kv
    BY <1>2 DEF SweepNext, files
  <2>n. look \in [Instances -> Look] /\ look[i].phase = "adopt" /\ (\E t, r : look' = [look EXCEPT ![i] = [look[i] EXCEPT !.left = @ \ {c}, !.at = c, !.todo = t, !.refused = r]])
    BY ZenonT(60), <1>2 DEF SweepNext, SweepsOn, TypeOK, LocksI, Locks
  <2>2. ~Condemned(d)'
    <3>1. \A k \in Instances : look'[k].phase = "remove" => look'[k].at # d \/ (look[k].phase = "remove" /\ look'[k].at = look[k].at)
      BY <2>n DEF Look
    <3> QED
      BY <3>1, NotCondemned
  <2> QED
    BY <2>1, <2>2, KeptE
<1>3. ASSUME NEW c \in Instances, SweepPasses(i, c)
     PROVE  (\E k \in Instances : kv'[k][g] # NoFile) /\ ~Condemned(d)'
  <2>1. UNCHANGED kv
    BY <1>3 DEF SweepPasses, files
  <2>2. ~Condemned(d)'
    <3>1. \A k \in Instances : look'[k].phase = "remove" => look'[k].at # d \/ (look[k].phase = "remove" /\ look'[k].at = look[k].at)
      BY <1>3, TypeAt DEF SweepPasses, Begins, TypeOK, Look
    <3> QED
      BY <3>1, NotCondemned
  <2> QED
    BY <2>1, <2>2, KeptE
<1>4. CASE SweepEnd(i)
  <2>1. UNCHANGED kv
    BY <1>4 DEF SweepEnd, files
  <2>2. ~Condemned(d)'
    <3>1. \A k \in Instances : look'[k].phase = "remove" => look'[k].at # d \/ (look[k].phase = "remove" /\ look'[k].at = look[k].at)
      BY <1>4, TypeAt DEF SweepEnd, Begins, TypeOK, Look
    <3> QED
      BY <3>1, NotCondemned
  <2> QED
    BY <2>1, <2>2, KeptE
<1>5. ASSUME NEW e \in Entries, AdoptLeaves(i, e)
     PROVE  (\E k \in Instances : kv'[k][g] # NoFile) /\ ~Condemned(d)'
  <2>1. UNCHANGED kv
    BY <1>5, AdoptLeavesE
  <2>2. ~Condemned(d)'
    <3>1. \A k \in Instances : look'[k].phase = "remove" => look'[k].at # d \/ (look[k].phase = "remove" /\ look'[k].at = look[k].at)
      BY ZenonT(60), <1>5, AdoptLeavesE
    <3> QED
      BY <3>1, NotCondemned
  <2> QED
    BY <2>1, <2>2, KeptE
<1>6. ASSUME NEW e \in Entries, AdoptPasses(i, e)
     PROVE  (\E k \in Instances : kv'[k][g] # NoFile) /\ ~Condemned(d)'
  <2>1. (\A k \in Instances : k # i => look'[k] = look[k]) /\ look[i].at \in Instances
    BY <1>6, AdoptO
  <2>2. ~Condemned(d)'
    <3>1. \A k \in Instances : look'[k].phase = "remove" => look'[k].at # d \/ (look[k].phase = "remove" /\ look'[k].at = look[k].at)
      BY <1>6, <2>1, AdoptPassesE
    <3> QED
      BY <3>1, NotCondemned
  <2>3. kv'[d][g] = IF d = look[i].at /\ g = e THEN Standing(d, e) ELSE kv[d][g]
    BY <1>6, <2>1, AdoptPassesE
  <2>4. CASE d = look[i].at /\ g = e
    <3>1. ~Marked(d, e)
      BY <2>4 DEF Keeps, Marked
    <3>2. Standing(d, e) = kv[d][e]
      BY <3>1 DEF Standing
    <3> QED
      BY <2>2, <2>3, <2>4, <3>2, KeptE
  <2>5. CASE ~(d = look[i].at /\ g = e)
    BY <2>2, <2>3, <2>5, KeptE
  <2> QED
    BY <2>4, <2>5
<1>7. ASSUME NEW e \in Entries, AdoptTakes(i, e)
     PROVE  (\E k \in Instances : kv'[k][g] # NoFile) /\ ~Condemned(d)'
  <2>1. (\A k \in Instances : k # i => look'[k] = look[k]) /\ look[i].at \in Instances
    BY ZenonT(60), <1>7, AdoptO
  <2>a. look'[i].phase = "move" /\ Standing(look[i].at, e) = WholeFor(TakenAs(i, look[i].at, e))
    BY <1>7, AdoptTakesE
  <2>2. ~Condemned(d)'
    <3>1. \A k \in Instances : look'[k].phase = "remove" => look'[k].at # d \/ (look[k].phase = "remove" /\ look'[k].at = look[k].at)
      BY <2>1, <2>a
    <3> QED
      BY <3>1, NotCondemned
  <2>3. kv'[d][g] = IF d = look[i].at /\ g = e THEN Standing(d, e) ELSE kv[d][g]
    BY <1>7, <2>1, <2>a, AdoptTakesF
  <2>4. CASE d = look[i].at /\ g = e
    <3>1. ~Marked(d, e)
      BY <2>4 DEF Keeps, Marked
    <3>2. Standing(d, e) = kv[d][e]
      BY <3>1 DEF Standing
    <3> QED
      BY <2>2, <2>3, <2>4, <3>2, KeptE
  <2>5. CASE ~(d = look[i].at /\ g = e)
    BY <2>2, <2>3, <2>5, KeptE
  <2> QED
    BY <2>4, <2>5
<1>8. CASE AdoptMove(i)
  <2>1. (\A k \in Instances : k # i => look'[k] = look[k]) /\ look[i].at \in Instances /\ look[i].at # i
    BY <1>8, AdoptO
  <2>a. look'[i].phase \in {"adopt", "beside"} /\ kv[look[i].at][look[i].mv] # NoFile
    BY <1>8, AdoptMoveE
  <2>2. ~Condemned(d)'
    <3>1. \A k \in Instances : look'[k].phase = "remove" => look'[k].at # d \/ (look[k].phase = "remove" /\ look'[k].at = look[k].at)
      BY <2>1, <2>a
    <3> QED
      BY <3>1, NotCondemned
  <2>3. CASE d = look[i].at /\ g = look[i].mv
    <3>1. kv'[i][g] = kv[d][g]
      BY <1>8, <2>1, <2>3, AdoptMoveF
    <3> QED
      BY <2>2, <2>a, <2>3, <3>1
  <2>4. CASE ~(d = look[i].at /\ g = look[i].mv)
    <3>1. kv'[d][g] # NoFile
      BY <1>8, <2>1, <2>a, <2>4, AdoptMoveF, KeptE
    <3> QED
      BY <2>2, <3>1
  <2> QED
    BY <2>3, <2>4
<1>9. CASE AdoptMoveFails(i)
  <2>1. UNCHANGED kv
    BY <1>9 DEF AdoptMoveFails, files
  <2>2. ~Condemned(d)'
    <3>1. \A k \in Instances : look'[k].phase = "remove" => look'[k].at # d \/ (look[k].phase = "remove" /\ look'[k].at = look[k].at)
      BY <1>9, TypeAt DEF AdoptMoveFails, Begins, TypeOK, Look
    <3> QED
      BY <3>1, NotCondemned
  <2> QED
    BY <2>1, <2>2, KeptE
<1>10. CASE AdoptBeside(i)
  <2>1. UNCHANGED kv
    BY <1>10 DEF AdoptBeside, files
  <2>2. ~Condemned(d)'
    <3>1. \A k \in Instances : look'[k].phase = "remove" => look'[k].at # d \/ (look[k].phase = "remove" /\ look'[k].at = look[k].at)
      BY <1>10, TypeAt DEF AdoptBeside, Begins, TypeOK, Look
    <3> QED
      BY <3>1, NotCondemned
  <2> QED
    BY <2>1, <2>2, KeptE
<1>11. CASE SweepLeave(i)
  <2>1. UNCHANGED kv /\ look' = [look EXCEPT ![i] = LookEnded(look[i])]
    BY <1>11, SweepLeaveE
  <2>2. ~Condemned(d)'
    <3>1. \A k \in Instances : look'[k].phase = "remove" => look'[k].at # d \/ (look[k].phase = "remove" /\ look'[k].at = look[k].at)
      BY ZenonT(60), <2>1, LookEndedE
    <3> QED
      BY <3>1, NotCondemned
  <2> QED
    BY <2>1, <2>2, KeptE
<1>12. CASE SweepCondemn(i)
  <2>1. UNCHANGED kv /\ SweepDone(i) /\ ~Spared(i, look[i].at) /\ (\A k \in Instances : k # i => look'[k] = look[k]) /\ look'[i].at = look[i].at
    BY <1>12, SweepCondemnE
  <2>2. look[i].at \in Instances /\ look[i].phase = "adopt" /\ look[i].todo = {} /\ look[i].at # Nobody
    BY ZenonT(60), <2>1, SweepDoneE DEF SweepDone
  <2>3. d = look[i].at => g \in look[i].unread
    <3> SUFFICES ASSUME d = look[i].at, g \notin look[i].unread PROVE FALSE
      OBVIOUS
    <3>1. Adopts(i) /\ ~look[i].retain /\ ~look[i].refused /\ ~(dir[d].id \notin {NoBuild, Mine(i)} /\ ~look[i].took)
      BY <2>1 DEF Spared
    <3>2. ~srv[i].cfg.proved /\ dir[d].id # Mine(i)
      BY <2>2, <3>1 DEF LookedI, Looked
    <3>3. ~look[i].took
      BY <3>2 DEF LocksI, Locks
    <3>4. dir[d].id # NoBuild
      BY DEF Keeps, Files, WholeFor, NoFile
    <3> QED
      BY <3>1, <3>2, <3>3, <3>4
  <2>4. d # look[i].at => ~Condemned(d)'
    <3>1. ASSUME d # look[i].at
          PROVE  \A k \in Instances : look'[k].phase = "remove" => look'[k].at # d \/ (look[k].phase = "remove" /\ look'[k].at = look[k].at)
      BY <2>1, <3>1
    <3> QED
      BY <3>1, NotCondemned
  <2>5. d = look[i].at => Unread(d, g)
    BY <2>3 DEF Unread
  <2> QED
    BY <2>1, <2>4, <2>5, KeptE
<1>13. CASE SweepRemove(i)
  <2>1. look[i].at \in Instances /\ look[i].phase = "remove" /\ RemovedAll(look[i].at) /\ look' = [look EXCEPT ![i] = LookEnded(look[i])]
    BY <1>13, SweepRemoveE
  <2>2. ~Condemned(d)'
    <3>1. \A k \in Instances : look'[k].phase = "remove" => look'[k].at # d \/ (look[k].phase = "remove" /\ look'[k].at = look[k].at)
      BY ZenonT(60), <2>1, LookEndedE
    <3> QED
      BY <3>1, NotCondemned
  <2>3. d # look[i].at
    BY <2>1, KeptE
  <2>4. kv'[d][g] = kv[d][g]
    BY <2>1, <2>3, RemovedAllE
  <2> QED
    BY <2>2, <2>4, KeptE
<1>14. ASSUME NEW e \in Entries, Evict(i, e)
     PROVE  (\E k \in Instances : kv'[k][g] # NoFile) /\ ~Condemned(d)'
  <2>1. Serving(i) /\ UNCHANGED look /\ Removed(i, e)
    BY <1>14, EvictE DEF Serving
  <2>2. kv'[d][g] = kv[d][g]
    BY <2>1, KeptE, RemovedE
  <2> QED
    BY <2>1, <2>2, KeptE, NotCondemned
<1>15. CASE OpenBad(i)
  <2>1. Serving(i) /\ UNCHANGED look /\ stream[i].e \in Entries /\ Removed(i, stream[i].e)
    BY <1>15, OpenBadE
  <2>2. kv'[d][g] = kv[d][g]
    BY <2>1, KeptE, RemovedE
  <2> QED
    BY <2>1, <2>2, KeptE, NotCondemned
<1>16. CASE ReadBad(i)
  <2>1. Serving(i) /\ UNCHANGED look /\ read[i].job.e \in Entries /\ Removed(i, read[i].job.e)
    BY <1>16, DroppedE
  <2>2. kv'[d][g] = kv[d][g]
    BY <2>1, KeptE, RemovedE
  <2> QED
    BY <2>1, <2>2, KeptE, NotCondemned
<1>17. CASE RewriteField(i)
  <2>1. Serving(i) /\ UNCHANGED look
    BY <1>17, RewriteFieldE
  <2>2. kv'[d][g] = kv[d][g]
    BY <1>17, <2>1, KeptE, RewriteFieldF
  <2> QED
    BY <2>1, <2>2, KeptE, NotCondemned
<1>18. CASE RewriteSum(i)
  <2>1. Serving(i) /\ UNCHANGED look
    BY <1>18, RewriteSumE
  <2>2. kv'[d][g] = kv[d][g]
    BY <1>18, <2>1, KeptE, RewriteSumE
  <2> QED
    BY <2>1, <2>2, KeptE, NotCondemned
<1>19. CASE ClaimLost(i)
  <2>1. Serving(i) /\ UNCHANGED look /\ read[i].job.e \in Entries /\ Removed(i, read[i].job.e)
    BY <1>19, DroppedE
  <2>2. kv'[d][g] = kv[d][g]
    BY <2>1, KeptE, RemovedE
  <2> QED
    BY <2>1, <2>2, KeptE, NotCondemned
<1>20. CASE ClaimKept(i)
  <2>1. Serving(i) /\ UNCHANGED look
    BY <1>20, ClaimKeptE
  <2>2. kv'[d][g] = kv[d][g]
    BY <1>20, <2>1, KeptE, ClaimKeptE
  <2> QED
    BY <2>1, <2>2, KeptE, NotCondemned
<1>21. CASE PutRename(i)
  <2>1. Serving(i) /\ UNCHANGED look
    BY <1>21, PutRenameE
  <2>2. kv'[d][g] = kv[d][g]
    BY <1>21, <2>1, KeptE, PutRenameE
  <2> QED
    BY <2>1, <2>2, KeptE, NotCondemned
<1>22. CASE PutCancelled(i)
  <2>1. Serving(i) /\ UNCHANGED look /\ put[i].job.e \in Entries /\ Removed(i, put[i].job.e)
    BY <1>22, JobT DEF PutCancelled, Idle
  <2>2. kv'[d][g] = kv[d][g]
    BY <2>1, KeptE, RemovedE
  <2> QED
    BY <2>1, <2>2, KeptE, NotCondemned
<1>23. CASE IdleSweep(i)
  <2>1. UNCHANGED kv
    BY <1>23 DEF IdleSweep, files
  <2>2. ~Condemned(d)'
    <3>1. \A k \in Instances : look'[k].phase = "remove" => look'[k].at # d \/ (look[k].phase = "remove" /\ look'[k].at = look[k].at)
      BY <1>23, TypeAt DEF IdleSweep, Begins, TypeOK, Look
    <3> QED
      BY <3>1, NotCondemned
  <2> QED
    BY <2>1, <2>2, KeptE
<1>24. CASE Leave(i)
  <2>1. UNCHANGED kv /\ (\A k \in Instances : look'[k] = IF k \in {i} THEN NoLook ELSE look[k])
    BY <1>24 DEF Leave, files, Memory
  <2>2. ~Condemned(d)'
    <3>1. \A k \in Instances : look'[k].phase = "remove" => look'[k].at # d \/ (look[k].phase = "remove" /\ look'[k].at = look[k].at)
      BY <2>1 DEF NoLook
    <3> QED
      BY <3>1, NotCondemned
  <2> QED
    BY <2>1, <2>2, KeptE
<1>25. CASE RemoveOwn(i)
  <2>1. RemovedAll(i) /\ UNCHANGED look /\ srv[i].pc = "removing"
    BY <1>25, RemoveOwnE
  <2>2. kv'[d][g] = kv[d][g]
    BY <2>1, KeptE, RemovedAllE
  <2> QED
    BY <2>1, <2>2, KeptE, NotCondemned
<1>26. CASE Kill(i)
  <2>1. UNCHANGED kv /\ (\A k \in Instances : k # i => look'[k] = look[k]) /\ look'[i] = NoLook
    BY <1>26, KillE
  <2>2. ~Condemned(d)'
    <3>1. \A k \in Instances : look'[k].phase = "remove" => look'[k].at # d \/ (look[k].phase = "remove" /\ look'[k].at = look[k].at)
      BY <2>1 DEF NoLook
    <3> QED
      BY <3>1, NotCondemned
  <2> QED
    BY <2>1, <2>2, KeptE
<1>27. CASE MakeDirectory(i) \/ TakeLock(i) \/ LockRefused(i) \/ (\E e \in Entries : Put(i, e) \/ Get(i, e) \/ Claim(i, e))
  <2>1. UNCHANGED <<kv, look>>
    BY <1>27 DEF MakeDirectory, TakeLock, LockRefused, Put, Get, Claim, files
  <2> QED
    BY <2>1, KeptE, NotCondemned
<1>28. CASE OpenWhole(i) \/ TakeRead(i) \/ ReadWhole(i) \/ ClaimBegins(i) \/ (\E e \in Entries : Cancel(i, e) \/ OpenEntry(i, e))
  <2>1. UNCHANGED <<kv, look>>
    BY <1>28 DEF Cancel, OpenEntry, OpenWhole, TakeRead, ReadWhole, ClaimBegins, files
  <2> QED
    BY <2>1, KeptE, NotCondemned
<1>29. CASE RewriteSync(i) \/ RewriteFails(i) \/ RewriteBeside(i) \/ SettleFails(i) \/ TakePut(i) \/ RefusePut(i)
  <2>1. UNCHANGED <<kv, look>>
    BY <1>29 DEF RewriteSync, RewriteFails, RewriteBeside, SettleFails, TakePut, RefusePut, files
  <2> QED
    BY <2>1, KeptE, NotCondemned
<1>30. CASE PutWrite(i) \/ PutFails(i) \/ PutCommit(i) \/ Stop(i)
  <2>1. UNCHANGED <<kv, look>>
    BY <1>30 DEF PutWrite, PutFails, PutCommit, Stop, files
  <2> QED
    BY <2>1, KeptE, NotCondemned
<1> QED
  BY <1>1, <1>2, <1>3, <1>4, <1>5, <1>6, <1>7, <1>8, <1>9, <1>10, <1>11, <1>12, <1>13, <1>14, <1>15, <1>16, <1>17, <1>18, <1>19, <1>20, <1>21,
     <1>22, <1>23, <1>24, <1>25, <1>26, <1>27, <1>28, <1>29, <1>30 DEF Acts, Start, Sweep, Call, ReadIO, ClaimSettle, PutIO, End

\* What is on the disk outlives a power loss, and no sweep does.
LEMMA PowerLossSpares ==
  ASSUME TypeOK, LocksI, DiskStoreAssumption, PowerLoss, NEW d \in Instances, NEW g \in Entries,
         dir[d].kept, ~dir[d].old, ~Condemned(d), g \in Keeps(d)
  PROVE  (\E k \in Instances : kv'[k][g] # NoFile) /\ ~Condemned(d)'
<1>1. \A k \in Instances : look'[k] = NoLook
  BY PowerLossE
<1>2. kv'[d][g] = kv[d][g]
  <2>1. kv[d][g] = [f |-> kv[d][g].f, s |-> kv[d][g].s] /\ disk[d][g] = kv[d][g]
    BY KeptE DEF TypeOK, Header
  <2>2. \/ kv'[d][g] = kv[d][g] \/ kv'[d][g] = disk[d][g]
        \/ kv'[d][g] \in {[f |-> kv[d][g].f, s |-> disk[d][g].s], [f |-> disk[d][g].f, s |-> kv[d][g].s]}
    BY PowerLossE
  <2> QED
    BY <2>1, <2>2
<1>3. ~Condemned(d)'
  BY <1>1, NotCondemned DEF NoLook
<1> QED
  BY <1>2, <1>3, KeptE

-----------------------------------------------------------------------------
\* The invariant, and what it says of the store.
LEMMA ActsKeep == ASSUME DiskStoreAssumption, IInv, NEW i \in Instances, Acts(i) PROVE IInv'
<1>1. TypeOK /\ LocksI /\ EmptyI /\ PutI /\ OnceI /\ ProvedI /\ HeadedI /\ KnownI /\ ClaimingI /\ MovingI /\ LookedI
  BY DEF IInv
<1>2. TypeOK' /\ LocksI' /\ EmptyI' /\ PutI' /\ OnceI' /\ ProvedI'
  BY <1>1, TypesKept, LocksKept, EmptyKept, PutKept, OnceKept, ProvedKept
<1>3. HeadedI' /\ KnownI' /\ ClaimingI' /\ MovingI' /\ LookedI'
  BY <1>1, HeadedKept, KnownKept, ClaimingKept, MovingKept, LookedKept
<1> QED
  BY <1>2, <1>3 DEF IInv

LEMMA NextKeeps == ASSUME DiskStoreAssumption, IInv, [Next]_vars PROVE IInv'
<1>1. TypeOK /\ LocksI /\ EmptyI /\ PutI /\ OnceI /\ ProvedI /\ HeadedI /\ KnownI /\ ClaimingI /\ MovingI /\ LookedI
  BY DEF IInv
<1>2. CASE \E i \in Instances : Acts(i)
  BY <1>2, ActsKeep
<1>3. CASE PowerLoss
  BY <1>1, <1>3, PowerLossKeeps DEF IInv
<1>4. ASSUME NEW x \in Instances, Expire(x) PROVE IInv'
  <2>1. TypeOK'
    BY <1>1, <1>4, ExpireTyped
  <2>2. LocksI' /\ EmptyI' /\ PutI' /\ OnceI' /\ ProvedI' /\ HeadedI' /\ KnownI' /\ ClaimingI' /\ MovingI' /\ LookedI'
    BY <1>1, <1>4, ExpireE, QuietKeeps
  <2> QED
    BY <2>1, <2>2 DEF IInv
<1>5. CASE UNCHANGED vars
  <2>1. UNCHANGED <<dir, kv, from, disk, srv, sizes, foreign, claimed, jobs, put, read, stream, look, proved, weak>>
    BY <1>5 DEF vars, files, store, io, ghosts
  <2>2. TypeOK'
    BY <1>1, <2>1 DEF TypeOK
  <2>3. LocksI' /\ EmptyI' /\ PutI' /\ OnceI' /\ ProvedI' /\ HeadedI' /\ KnownI' /\ ClaimingI' /\ MovingI' /\ LookedI'
    BY <1>1, <2>1, QuietKeeps
  <2> QED
    BY <2>2, <2>3 DEF IInv
<1> QED
  BY <1>2, <1>3, <1>4, <1>5 DEF Next, Done

LEMMA InvariantHolds == Spec => []IInv
<1>1. Init => IInv
  BY DiskStoreAssumption, InitHolds DEF IInv
<1>2. IInv /\ [Next]_vars => IInv'
  BY DiskStoreAssumption, NextKeeps
<1> QED
  BY <1>1, <1>2, PTL DEF Spec

\* A store knows every file of its directory, and what it serves as its own was written by its build or proved by it, whatever
\* claims were cut short and whichever builds adopted it between (settle, adopt_from, written_as, write's last check).
THEOREM DiskStoreSound == Spec => []StoreSound
<1>1. ASSUME IInv PROVE NoStrayFile
  BY <1>1 DEF IInv, KnownI, Known, NoStrayFile, Files, Has, Opened, Serving, Renamed
<1>2. ASSUME IInv PROVE OwnIsProved
  <2> SUFFICES ASSUME NEW i \in Instances, Serving(i), NEW e \in sizes[i], foreign[i][e] = NoBuild, kv[i][e] = WholeFor(Mine(i))
               PROVE  Mine(i) \in proved[e]
    BY DEF OwnIsProved
  <2>1. TypeOK /\ e \in Entries
    BY <1>2 DEF IInv, TypeOK
  <2>2. Mine(i) # NoBuild
    BY <2>1, DiskStoreAssumption, MineT
  <2>3. kv[i][e] # NoFile /\ kv[i][e].s = Mine(i)
    BY <2>2 DEF WholeFor, NoFile
  <2> QED
    BY <1>2, <2>1, <2>3 DEF IInv, ProvedI, Proved, Has
<1>3. IInv => StoreSound
  BY <1>1, <1>2 DEF IInv, StoreSound
<1> QED
  BY <1>3, InvariantHolds, PTL

\* Every entry file that a kill, a power loss or a failed step leaves is one the next start can settle: whole, or answering by its
\* checksum to the identity beside it or to its directory's (rewrite's order: field, checksum, sync, identity; adopt_from's move).
THEOREM DiskStoreSettles == Spec => []TornIsSettleable
<1>1. IInv => TornIsSettleable
  <2> SUFFICES ASSUME IInv, NEW d \in Directories, NEW e \in Files(d) \ weak PROVE Settleable(d, e)
    BY DEF TornIsSettleable
  <2>1. d \in Instances /\ e \in Entries /\ Has(d, e) /\ e \notin weak
    BY DEF Directories, Files, Has
  <2>2. Headed(d, e)
    BY <2>1 DEF IInv, HeadedI
  <2> QED
    BY <2>1, <2>2 DEF Headed, Settleable
<1> QED
  BY <1>1, InvariantHolds, PTL

\* An entry that a kept directory has on the disk goes only into a server that adopts it, until the directory's age limit: no kill,
\* power loss, failed write or move or build that refuses it deletes it, and a sweep gives its directory up only where it failed to read
\* that entry's header (sweep, adopt_from).
THEOREM DiskStoreKeeps == Spec => KeptNotLost
<1>1. ASSUME IInv, [Next]_vars, NEW d \in Instances, dir[d].kept, ~dir[d].old, ~Condemned(d), NEW e \in Keeps(d)
      PROVE  (\E k \in Instances : kv'[k][e] # NoFile) /\ (~Condemned(d)' \/ Unread(d, e))
  <2>1. TypeOK /\ LocksI /\ EmptyI /\ PutI /\ OnceI /\ ProvedI /\ HeadedI /\ KnownI /\ ClaimingI /\ MovingI /\ LookedI
    BY <1>1 DEF IInv
  <2>2. e \in Entries
    BY DEF Keeps, Files
  <2>3. CASE \E i \in Instances : Acts(i)
    BY <1>1, <2>1, <2>2, <2>3, DiskStoreAssumption, EntriesKept
  <2>4. CASE PowerLoss
    BY <1>1, <2>1, <2>2, <2>4, DiskStoreAssumption, PowerLossSpares
  <2>5. ASSUME NEW x \in Instances, Expire(x) PROVE (\E k \in Instances : kv'[k][e] # NoFile) /\ ~Condemned(d)'
    <3>1. UNCHANGED <<kv, look>>
      BY <2>1, <2>5, ExpireE
    <3> QED
      BY <1>1, <2>1, <2>2, <3>1, KeptE, NotCondemned
  <2>6. CASE UNCHANGED vars
    <3>1. UNCHANGED <<kv, look>>
      BY <2>6 DEF vars, files
    <3> QED
      BY <1>1, <2>1, <2>2, <3>1, KeptE, NotCondemned
  <2> QED
    BY <1>1, <2>3, <2>4, <2>5, <2>6 DEF Next, Done
<1>2. IInv /\ [Next]_vars =>
        [\A d \in Instances : (dir[d].kept /\ ~dir[d].old /\ ~Condemned(d)) =>
            \A e \in Keeps(d) : /\ \E k \in Instances : kv'[k][e] # NoFile
                                /\ Condemned(d)' => kv'[d][e] = NoFile \/ Unread(d, e)]_vars
  BY <1>1
<1> QED
  BY <1>2, InvariantHolds, PTL DEF Spec, KeptNotLost
=============================================================================
