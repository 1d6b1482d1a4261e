------------------------------ MODULE ArchiveSync ------------------------------
(***************************************************************************)
(* archive_sync/src/main.rs: the state of one block is fetched in dumps,   *)
(* from an archive node over IPC or from the directory an earlier sync     *)
(* wrote, and goes into files, into the tries of a node's store, or both.  *)
(* A checkpoint file lets a run that was aborted be resumed.               *)
(*                                                                         *)
(* An account is the hash of its address, a number; its content is what    *)
(* tells the states of two blocks apart, so the content is the block.  A   *)
(* state root is what the trie under it holds.  Writing a dump, a trie or  *)
(* the checkpoint is one step that Abort may cut at any point.             *)
(***************************************************************************)
EXTENDS Integers, FiniteSets

CONSTANTS
  Keys,            \* hashed addresses of the accounts, the same in every block
  Blocks,          \* block numbers the command is run with
  MaxAccounts,     \* MAX_ACCOUNTS of a dump
  Every,           \* DUMPS_BEFORE_CHECKPOINT
  MaxAborts,       \* bound: runs that end early
  None, Torn       \* no value; a file that was cut while it was written

ASSUME ArchiveAssumption ==
  /\ Keys \subseteq Nat \ {0} /\ IsFiniteSet(Keys)
  /\ MaxAccounts \in Nat \ {0} /\ Every \in Nat \ {0} /\ MaxAborts \in Nat

VARIABLES
  flags,        \* options of the current run
  pc,           \* where it is
  reader,       \* its DumpReader: start (ipc) or current_file (dir)
  dump,         \* the dump in hand
  current_root, \* of its DumpProcessor, unless --no_sync
  current_file, \* of its DumpDirWriter, with --output_dir
  state_root,   \* of its DumpProcessor, None before the first dump
  since,        \* dumps_since_checkpoint
  checkpoint,   \* the checkpoint file
  out,          \* files of the output directory
  indir,        \* files of the input directory and the block.rlp there
  stored,       \* accounts with their storage and code in the store
  head,         \* head of the local chain: its block and state, None at first
  aborts        \* runs aborted so far

run  == <<flags, pc, reader, dump, current_root, current_file, state_root, since>>
disk == <<checkpoint, out, indir, stored, head>>
vars == <<run, disk, aborts>>

Accounts == Keys \X Blocks
Flags == {f \in [ipc : BOOLEAN, output : BOOLEAN, sync : BOOLEAN, block : Blocks] :
            f.sync \/ f.output}                       \* --no_sync requires --output_dir
Dump == [keys : SUBSET Keys, root : Blocks, last : BOOLEAN]
File == [n : Nat, whole : BOOLEAN, dump : Dump]

\* The options under which it was written tell which fields are null in the file.
CheckPoint == [of : Flags, current_root : SUBSET Accounts, current_file : Nat, next : Nat]

ASSUME NoneAssumption ==
  /\ None # Torn /\ None \notin Blocks
  /\ None \notin CheckPoint /\ Torn \notin CheckPoint
  /\ None \notin [block : Blocks, files : SUBSET File]
  /\ None \notin [block : Blocks, state : SUBSET Accounts]

TypeOK ==
  /\ flags \in Flags
  /\ pc \in {"off", "read", "process", "checkpoint", "block", "done"}
  /\ reader \in Nat
  /\ dump \in Dump
  /\ current_root \in SUBSET Accounts
  /\ current_file \in Nat
  /\ state_root \in Blocks \cup {None}
  /\ since \in 0..Every
  /\ checkpoint \in CheckPoint \cup {None, Torn}
  /\ out \in SUBSET File
  /\ indir \in [block : Blocks, files : SUBSET File] \cup {None}
  /\ stored \in SUBSET Accounts
  /\ head \in [block : Blocks, state : SUBSET Accounts] \cup {None}
  /\ aborts \in 0..MaxAborts

Init ==
  /\ flags \in Flags /\ pc = "off"
  /\ reader = 0 /\ since = 0
  /\ dump = [keys |-> {}, root |-> flags.block, last |-> TRUE]
  /\ current_root = {} /\ current_file = 0 /\ state_root = None
  /\ checkpoint = None /\ out = {} /\ indir = None /\ stored = {} /\ head = None
  /\ aborts = 0

-----------------------------------------------------------------------------
(* load_checkpoint and the construction of reader, writer and processor.   *)

\* What was not synced, written or read this way before cannot be resumed this way.
\* Dropping the sync or the output has to be confirmed; a refusal ends the run.
AcceptsOutput(f) == (f.ipc <=> checkpoint.of.ipc) /\ (f.sync => checkpoint.of.sync)    \* mutant
AcceptsSync(f) == (f.ipc <=> checkpoint.of.ipc) /\ (f.output => checkpoint.of.output)   \* mutant
Accepted(f) ==
  /\ f.ipc <=> checkpoint.of.ipc
  /\ f.output => checkpoint.of.output
  /\ f.sync => checkpoint.of.sync

Fresh == reader' = 0 /\ current_root' = {} /\ current_file' = 0

Resumed(f) ==
  /\ Accepted(f)
  /\ reader' = checkpoint.next
  /\ current_root' = IF f.sync THEN checkpoint.current_root ELSE {}
  /\ current_file' = IF f.output THEN checkpoint.current_file ELSE 0

Start(f) ==
  /\ pc = "off"
  /\ checkpoint # Torn
  /\ f.ipc \/ indir # None
  /\ IF checkpoint = None THEN Fresh ELSE Resumed(f)
  /\ flags' = f /\ pc' = "read" /\ state_root' = None /\ since' = 0
  /\ UNCHANGED <<dump, disk, aborts>>

-----------------------------------------------------------------------------
(* read_dump.                                                              *)

\* debug_accountRange: the first MAX_ACCOUNTS accounts from start on.
Page(start) ==
  {k \in Keys : k >= start /\ Cardinality({j \in Keys : start <= j /\ j < k}) < MaxAccounts}

\* hash_next of the highest key of the page, which is zero for an empty one.
Highest(page) == CHOOSE k \in page : \A j \in page : j <= k
SkipsOne(page) == IF page = {} THEN 1 ELSE Highest(page) + 2           \* mutant: + 2 for + 1
NextStart(page) ==
  IF page = {} THEN 1 ELSE Highest(page) + 1

ReadFromNode ==
  /\ flags.ipc
  /\ dump' = [keys |-> Page(reader), root |-> flags.block,
              last |-> \A k \in Keys : k >= reader => k \in Page(reader)]
  /\ reader' = NextStart(Page(reader))
  /\ pc' = "process"

ReadFromDir ==
  /\ ~flags.ipc
  /\ \E f \in indir.files : f.n = reader /\ f.whole /\ dump' = f.dump
  /\ reader' = reader + 1
  /\ pc' = "process"

\* File::open fails.
NoSuchDump ==
  /\ ~flags.ipc
  /\ \A f \in indir.files : f.n = reader => ~f.whole
  /\ pc' = "off"
  /\ UNCHANGED <<dump, reader>>

ReadDump ==
  /\ pc = "read"
  /\ ReadFromNode \/ ReadFromDir \/ NoSuchDump
  /\ UNCHANGED <<flags, current_root, current_file, state_root, since, disk, aborts>>

-----------------------------------------------------------------------------
(* process_dump and the checkpoint after it.                               *)

\* File::create: the file with that number is replaced.
Written(n, whole) == {f \in out : f.n # n} \cup {[n |-> n, whole |-> whole, dump |-> dump]}

\* Accounts of the dump go on top of the trie under current_root.
Inserted == {a \in current_root : a[1] \notin dump.keys} \cup (dump.keys \X {dump.root})

\* Storages and codes are in the store before the trie of the accounts is.
LastNotAwaited == IF dump.last THEN stored ELSE stored \cup (dump.keys \X {dump.root})  \* mutant
Stored == stored \cup (dump.keys \X {dump.root})

Due == since + 1 >= Every \/ dump.last

SameRoot == state_root \in {None, dump.root}

ProcessDump ==
  /\ pc = "process"
  /\ IF SameRoot
     THEN /\ state_root' = dump.root
          /\ IF flags.output
             THEN out' = Written(current_file, TRUE) /\ current_file' = current_file + 1
             ELSE UNCHANGED <<out, current_file>>
          /\ IF flags.sync
             THEN current_root' = Inserted /\ stored' = Stored
             ELSE UNCHANGED <<current_root, stored>>
          /\ since' = since + 1
          /\ pc' = IF Due THEN "checkpoint" ELSE "read"
     ELSE /\ pc' = "off"
          /\ UNCHANGED <<current_root, current_file, state_root, since, out, stored>>
  /\ UNCHANGED <<flags, reader, dump, checkpoint, indir, head, aborts>>

SaveCheckpoint ==
  /\ pc = "checkpoint"
  /\ checkpoint' =
       [of |-> flags, current_root |-> current_root, current_file |-> current_file, next |-> reader]
  /\ since' = 0
  /\ pc' = IF dump.last THEN "block" ELSE "read"
  /\ UNCHANGED <<flags, reader, dump, current_root, current_file, state_root,
                 out, indir, stored, head, aborts>>

-----------------------------------------------------------------------------
(* The block itself: process_rlp_block_and_block_hashes.                   *)

\* The block of the command line, or the one in block.rlp.
Target == IF flags.ipc THEN flags.block ELSE indir.block
StateOf(b) == Keys \X {b}

Canonical ==
  /\ flags.sync /\ current_root = StateOf(Target)
  /\ head' = [block |-> Target, state |-> current_root]
  /\ pc' = "done"

RootDiffers == flags.sync /\ current_root # StateOf(Target) /\ pc' = "off" /\ UNCHANGED head

OnlyFiles == ~flags.sync /\ pc' = "done" /\ UNCHANGED head

FinishBlock ==
  /\ pc = "block"
  /\ Canonical \/ RootDiffers \/ OnlyFiles
  /\ UNCHANGED <<flags, reader, dump, current_root, current_file, state_root, since,
                 checkpoint, out, indir, stored, aborts>>

-----------------------------------------------------------------------------
(* Runs that end early, killed or by an error (the node or the disk fails, *)
(* a storage root differs), and the way from the files to the store.       *)

\* In the middle of a dump: its file is cut, or it is whole and some of its
\* storages and codes are in the store.
CutDump ==
  /\ pc = "process" /\ SameRoot
  /\ \/ flags.output /\ out' = Written(current_file, FALSE) /\ UNCHANGED stored
     \/ /\ out' = IF flags.output THEN Written(current_file, TRUE) ELSE out
        /\ flags.sync
        /\ \E part \in SUBSET dump.keys : stored' = stored \cup (part \X {dump.root})
  /\ UNCHANGED checkpoint

\* File::create has truncated the checkpoint that was there.
CutCheckpoint == pc = "checkpoint" /\ checkpoint' = Torn /\ UNCHANGED <<out, stored>>

Abort ==
  /\ pc \in {"read", "process", "checkpoint", "block"} /\ aborts < MaxAborts
  /\ CutDump \/ CutCheckpoint \/ UNCHANGED <<checkpoint, out, stored>>
  /\ pc' = "off" /\ aborts' = aborts + 1
  /\ UNCHANGED <<flags, reader, dump, current_root, current_file, state_root, since, indir, head>>

\* The directory that was written becomes an input directory, with a checkpoint
\* file of its own.
Handover ==
  /\ pc = "done" /\ flags.output /\ indir = None
  /\ indir' = [block |-> Target, files |-> out]
  /\ out' = {} /\ checkpoint' = None /\ pc' = "off"
  /\ UNCHANGED <<flags, reader, dump, current_root, current_file, state_root, since,
                 stored, head, aborts>>

Steps == ReadDump \/ ProcessDump \/ SaveCheckpoint \/ FinishBlock
Next == (\E f \in Flags : Start(f)) \/ Steps \/ Abort \/ Handover

Spec == Init /\ [][Next]_vars

\* A run goes on unless it is aborted, and whoever wants the state starts it again.
FairSpec == Spec /\ WF_vars(Steps) /\ WF_vars(\E f \in Flags : Start(f))

-----------------------------------------------------------------------------
(* Properties.                                                             *)

KeysOf(root) == {a[1] : a \in root}
Below(n) == {k \in Keys : k < n}

\* A checkpoint covers what lies before it: every account the resumed reader will
\* not ask for again is in the trie that is resumed, and in whole files the
\* resumed writer does not replace.
CheckpointCovers ==
  checkpoint \notin {None, Torn} /\ checkpoint.of.ipc =>
    /\ checkpoint.of.sync => Below(checkpoint.next) \subseteq KeysOf(checkpoint.current_root)
    /\ checkpoint.of.output =>
         \A k \in Below(checkpoint.next) : \E f \in out :
           f.n < checkpoint.current_file /\ f.whole /\ k \in f.dump.keys

\* No trie that can be resumed or become the head has an account whose storage or
\* code is missing.
StorageIsThere ==
  /\ checkpoint \notin {None, Torn} => checkpoint.current_root \subseteq stored
  /\ head # None => head.state \subseteq stored

\* read_dump until a dump without next, in the order of the numbers.
ReadOf(files) ==
  {f \in files : f.whole /\ \A g \in files : g.n < f.n => ~g.dump.last}

\* What a run ends with lacks no account, however many runs it took and with
\* whatever options: neither the trie that is compared with the root of the
\* block, nor the files of a finished directory that a later run will read, none
\* of them cut and none missing between them.
ResultIsWhole ==
  /\ pc = "block" /\ flags.sync => KeysOf(current_root) = Keys
  /\ pc = "done" /\ flags.output =>
       /\ UNION {f.dump.keys : f \in ReadOf(out)} = Keys
       /\ \A f \in ReadOf(out) : \A n \in 0..f.n : \E g \in ReadOf(out) : g.n = n

\* What keeps a resumed sync from ending: a checkpoint that was cut, or one
\* written after the last dump of a directory.
Stuck ==
  \/ checkpoint = Torn
  \/ /\ checkpoint # None /\ ~checkpoint.of.ipc
     /\ \E f \in indir.files : f.dump.last /\ f.n < checkpoint.next

\* Runs for different blocks were mixed.
Mixed ==
  \/ \E a, b \in current_root : a[2] # b[2]
  \/ indir # None /\ \E f \in indir.files : f.dump.root # indir.block

\* A sync that is restarted often enough ends, with these exceptions.
ResumesToTheEnd == pc = "off" ~> pc = "done" \/ Stuck \/ Mixed

=============================================================================
