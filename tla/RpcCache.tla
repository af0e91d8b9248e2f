------------------------------ MODULE RpcCache ------------------------------
(***************************************************************************)
(* The tensor cache of llama.cpp's rpc-server, as patch 0021 leaves it:    *)
(* set_tensor writes `hash.tmp' and renames it to `hash', get_cached_file  *)
(* reads `hash'.  A process may die at any time, a write may fail in the   *)
(* middle and a rename may fail.  The stream is tested before it is closed *)
(* and may still hold the end of the data then: a write that fails at the  *)
(* close is seen by nobody.  A name refers to an inode, so a process goes  *)
(* on writing into a file that another renamed.  modules/rpc-server gives  *)
(* every instance a directory of its own: one Server.                      *)
(***************************************************************************)
EXTENDS Naturals, Sequences, FiniteSets

CONSTANTS
    Server,     \* the rpc-server processes that share the directory
    Tensor,     \* tensors, one hash each
    Blocks,     \* the writes a tensor takes
    Buffered,   \* how many of them the stream may put off to its close
    Inode,      \* bound: files on disk at once
    None

ASSUME ABlocks == Blocks \in Nat \ {0}
ASSUME ABuffered == Buffered \in 0..Blocks

VARIABLES
    entry,      \* tensor -> inode of its `hash', or None
    tmp,        \* tensor -> inode of its `hash.tmp', or None
    content,    \* inode -> [of, blocks]: whose data, and which blocks hold it
    server,     \* server -> [at, tensor, inode, written], at "idle" between requests
    answer      \* the content get_cached_file returned last, None for none

vars == <<entry, tmp, content, server, answer>>

Idle == [at |-> "idle", tensor |-> None, inode |-> None, written |-> 0]
Empty == [of |-> None, blocks |-> <<>>]
\* The size of a file is Len(blocks); FALSE is a block of zeros in a hole.
Written(t, n) == [of |-> t, blocks |-> [b \in 1..n |-> TRUE]]
Whole(t) == Written(t, Blocks)

ASSUME ANone ==
    None \notin Inode \cup Tensor /\ \A t \in Tensor : \A n \in 0..Blocks : Written(t, n) # None

Init ==
    /\ entry = [t \in Tensor |-> None] /\ tmp = [t \in Tensor |-> None]
    /\ content = [i \in Inode |-> Empty]
    /\ server = [s \in Server |-> Idle] /\ answer = None

InUse == {entry[t] : t \in Tensor} \cup {tmp[t] : t \in Tensor} \cup {server[s].inode : s \in Server}
At(s, at) == server[s].at = at
Returns(s) == server' = [server EXCEPT ![s] = Idle]

\* set_tensor: an entry of the right size counts as cached.
SetTensor(s, t) ==
    /\ At(s, "idle")
    /\ entry[t] # None => Len(content[entry[t]].blocks) # Blocks
    /\ server' = [server EXCEPT ![s] = [at |-> "open", tensor |-> t, inode |-> None, written |-> 0]]
    /\ UNCHANGED <<entry, tmp, content, answer>>

\* std::ofstream(tmp_file, trunc): the file of that name, or a new one.
OpenTmp(s) ==
    /\ At(s, "open")
    /\ LET t == server[s].tensor IN
       \E i \in IF tmp[t] # None THEN {tmp[t]} ELSE Inode \ InUse :
         /\ tmp' = [tmp EXCEPT ![t] = i]
         /\ content' = [content EXCEPT ![i] = [of |-> t, blocks |-> <<>>]]
         /\ server' = [server EXCEPT ![s].at = "write", ![s].inode = i]
    /\ UNCHANGED <<entry, answer>>

\* One write, by ofs.write or by the close, at the stream's own position, which
\* may lie behind the end of a file that another process has truncated.
WriteBlock(s) ==
    /\ At(s, "write") \/ At(s, "close")
    /\ server[s].written < Blocks
    /\ LET i == server[s].inode
           n == server[s].written + 1
           size == IF Len(content[i].blocks) < n THEN n ELSE Len(content[i].blocks)
       IN content' = [content EXCEPT ![i].blocks = [b \in 1..size |->
              b = n \/ (b \in DOMAIN content[i].blocks /\ content[i].blocks[b])]]
    /\ server' = [server EXCEPT ![s].written = @ + 1]
    /\ UNCHANGED <<entry, tmp, answer>>

\* Fault: a stream that failed is renamed all the same.
WriteFailsUnseen(s) ==
    /\ At(s, "open") \/ At(s, "write")
    /\ server' = [server EXCEPT ![s].at = "commit"]
    /\ UNCHANGED <<entry, tmp, content, answer>>
\* The open or a write failed before the test: !ofs, and fs::remove(tmp_file).
WriteFails(s) ==
    /\ At(s, "open") \/ At(s, "write")
    /\ tmp' = [tmp EXCEPT ![server[s].tensor] = None]
    /\ Returns(s) /\ UNCHANGED <<entry, content, answer>>

\* The test finds the stream good: at most Buffered writes are still to be done.
StreamGood(s) ==
    /\ At(s, "write") /\ server[s].written >= Blocks - Buffered
    /\ server' = [server EXCEPT ![s].at = "close"]
    /\ UNCHANGED <<entry, tmp, content, answer>>

\* The destructor closes the stream.  Nothing asks whether its writes failed.
Closed(s) ==
    /\ At(s, "close")
    /\ server' = [server EXCEPT ![s].at = "commit"]
    /\ UNCHANGED <<entry, tmp, content, answer>>

\* Fault: renamed while the stream is still open.
CommitEarly(s) ==
    /\ At(s, "write")
    /\ LET t == server[s].tensor IN
       /\ tmp[t] # None
       /\ entry' = [entry EXCEPT ![t] = tmp[t]] /\ tmp' = [tmp EXCEPT ![t] = None]
    /\ UNCHANGED <<content, server, answer>>
\* fs::rename(tmp_file, cache_file), the first or the second.
Commit(s) ==
    /\ At(s, "commit") \/ At(s, "retry")
    /\ LET t == server[s].tensor IN
       /\ tmp[t] # None
       /\ entry' = [entry EXCEPT ![t] = tmp[t]] /\ tmp' = [tmp EXCEPT ![t] = None]
    /\ Returns(s) /\ UNCHANGED <<content, answer>>

\* The first rename failed, or found no file: fs::remove(cache_file).
RenameFails(s) ==
    /\ At(s, "commit")
    /\ entry' = [entry EXCEPT ![server[s].tensor] = None]
    /\ server' = [server EXCEPT ![s].at = "retry"]
    /\ UNCHANGED <<tmp, content, answer>>
\* So did the second: fs::remove(tmp_file).
RetryFails(s) ==
    /\ At(s, "retry")
    /\ tmp' = [tmp EXCEPT ![server[s].tensor] = None]
    /\ Returns(s) /\ UNCHANGED <<entry, content, answer>>

\* get_cached_file: whatever the entry holds, at its size.
GetCachedFile(s, t) ==
    /\ At(s, "idle")
    /\ answer' = IF entry[t] = None THEN None ELSE content[entry[t]]
    /\ UNCHANGED <<entry, tmp, content, server>>

\* The process dies and systemd starts it again; the files stay.
Crash(s) == Returns(s) /\ UNCHANGED <<entry, tmp, content, answer>>

Step(s) ==
    \/ \E t \in Tensor : SetTensor(s, t) \/ GetCachedFile(s, t)
    \/ OpenTmp(s) \/ WriteBlock(s) \/ WriteFails(s) \/ StreamGood(s) \/ Closed(s)
    \/ Commit(s) \/ RenameFails(s) \/ RetryFails(s)
    \/ Crash(s)
Next == \E s \in Server : Step(s)
Spec == Init /\ [][Next]_vars
-----------------------------------------------------------------------------
\* Type invariant.
CacheTypeOK ==
    /\ entry \in [Tensor -> Inode \cup {None}] /\ tmp \in [Tensor -> Inode \cup {None}]
    /\ content \in [Inode -> [of : Tensor \cup {None}, blocks : Seq(BOOLEAN)]]
    /\ server \in [Server -> [at : {"idle", "open", "write", "close", "commit", "retry"},
                              tensor : Tensor \cup {None}, inode : Inode \cup {None}, written : 0..Blocks]]
    /\ answer \in {None} \cup [of : Tensor \cup {None}, blocks : Seq(BOOLEAN)]

\* No process still writes to a file that lookups can find.  With two servers
\* in one directory it does not hold: both open the same `hash.tmp'.
CommittedIsClosed ==
    \A s \in Server : \A t \in Tensor : entry[t] # None => entry[t] # server[s].inode

\* Through crashes, failed writes and failed renames the directory is a
\* CacheStore: a lookup never finds another tensor, a hole, or a file that lacks
\* more than the unseen writes of the close, and a whole tensor is never lost.
Cuts(t) == {Written(t, n) : n \in (Blocks - Buffered)..(Blocks - 1)}
Form(c, t) == IF c = Whole(t) THEN "whole" ELSE IF c \in Cuts(t) THEN "cut" ELSE "broken"
Store == INSTANCE CacheStore WITH
    Miss <- None,
    kept <- [t \in Tensor |-> IF entry[t] = None THEN "none" ELSE Form(content[entry[t]], t)],
    answer <- IF answer = None THEN None ELSE <<answer.of, Form(answer, answer.of)>>
ImplementsStore == Store!Spec
=============================================================================
