--------------------------- MODULE RpcCacheProofs ---------------------------
(***************************************************************************)
(* One server in a cache directory, as modules/rpc-server configures it:   *)
(* for every number of tensors, blocks, blocks put off to the close and    *)
(* inodes, a name refers to a tensor that lacks at most the blocks put     *)
(* off, so the directory implements CacheStore.                            *)
(***************************************************************************)
EXTENDS RpcCache, TLAPS

Place == {"idle", "open", "write", "close", "commit", "retry"}
OneServer == \A s, u \in Server : s = u

\* Two names never refer to one inode.
Distinct ==
    /\ \A t, u \in Tensor : entry[t] # None => entry[t] # tmp[u]
    /\ \A t, u \in Tensor : t # u /\ entry[t] # None => entry[t] # entry[u]
    /\ \A t, u \in Tensor : t # u /\ tmp[t] # None => tmp[t] # tmp[u]

HoldsWhole(t) == entry[t] # None /\ content[entry[t]] = Whole(t)

\* A server in set_tensor writes a tensor that is not cached whole, into the
\* file its `hash.tmp' refers to, and has written a prefix of it; once the stream
\* was found good, all but the blocks put off to the close.
Storing(s) ==
    /\ server[s].tensor \in Tensor
    /\ ~HoldsWhole(server[s].tensor)
    /\ server[s].at = "open" => server[s].inode = None /\ server[s].written = 0
    /\ server[s].at \in {"write", "close", "commit", "retry"} =>
          /\ server[s].inode \in Inode /\ tmp[server[s].tensor] = server[s].inode
          /\ content[server[s].inode] = Written(server[s].tensor, server[s].written)
    /\ server[s].at \in {"close", "commit", "retry"} => server[s].written >= Blocks - Buffered
ServersKnow == \A s \in Server : server[s] # Idle => server[s].at # "idle" /\ Storing(s)

\* What is found under a name, and what was answered, lacks at most the blocks
\* whose writes nobody tests.
Untested == (Blocks - Buffered)..Blocks
EntriesHold ==
    \A t \in Tensor : entry[t] # None => \E n \in Untested : content[entry[t]] = Written(t, n)
AnswersHold == answer = None \/ \E t \in Tensor : \E n \in Untested : answer = Written(t, n)

IInv == CacheTypeOK /\ Distinct /\ ServersKnow /\ EntriesHold /\ AnswersHold

USE DEF Place
-----------------------------------------------------------------------------
(* Facts about the blocks. *)

\* A prefix of a tensor is a file content, and its size is its length.
LEMMA WrittenType ==
    ASSUME NEW t \in Tensor, NEW n \in Nat
    PROVE  /\ Written(t, n) \in [of : Tensor \cup {None}, blocks : Seq(BOOLEAN)]
           /\ Len(Written(t, n).blocks) = n /\ DOMAIN Written(t, n).blocks = 1..n
<1> DEFINE f == [b \in 1..n |-> TRUE]
<1>1. f \in [1..n -> BOOLEAN] /\ DOMAIN f = 1..n  OBVIOUS
<1>2. f \in Seq(BOOLEAN)  BY <1>1
<1>3. Len(f) = n  BY <1>1, <1>2
<1> QED  BY <1>1, <1>2, <1>3 DEF Written

LEMMA WholeIsWritten ==
    \A t \in Tensor : Whole(t) = Written(t, Blocks)
BY DEF Whole

\* What a write at the end of a prefix leaves: the next longer prefix.
LEMMA NextBlock ==
    ASSUME NEW t \in Tensor, NEW n \in Nat
    PROVE  [b \in 1..(n + 1) |-> b = n + 1 \/ (b \in 1..n /\ Written(t, n).blocks[b])]
             = Written(t, n + 1).blocks
<1>1. \A b \in 1..(n + 1) : b = n + 1 \/ b \in 1..n  OBVIOUS
<1>2. \A b \in 1..n : Written(t, n).blocks[b]  BY DEF Written
<1>3. \A b \in 1..(n + 1) : (b = n + 1 \/ (b \in 1..n /\ Written(t, n).blocks[b])) = TRUE
  BY <1>1, <1>2
<1> QED  BY <1>3, Zenon DEF Written

\* Every length a file under a name can have is a number of blocks; a shorter
\* file than Blocks is not the whole tensor.
LEMMA UntestedLengths ==
    /\ Untested \subseteq 0..Blocks /\ Blocks \in Untested
    /\ \A n \in 0..Blocks : n >= Blocks - Buffered => n \in Untested
    /\ \A t \in Tensor : \A n \in 0..Blocks : Written(t, n) = Whole(t) => n = Blocks
<1>1. /\ Untested \subseteq 0..Blocks /\ Blocks \in Untested
      /\ \A n \in 0..Blocks : n >= Blocks - Buffered => n \in Untested
  BY ABlocks, ABuffered DEF Untested
<1>2. ASSUME NEW t \in Tensor, NEW n \in 0..Blocks, Written(t, n) = Whole(t) PROVE n = Blocks
  <2>1. n \in Nat /\ Blocks \in Nat  BY ABlocks
  <2>2. Len(Written(t, n).blocks) = n /\ Len(Written(t, Blocks).blocks) = Blocks
    BY <2>1, WrittenType
  <2> QED  BY <1>2, <2>2, WholeIsWritten
<1> QED  BY <1>1, <1>2
-----------------------------------------------------------------------------
(* The invariant: the initial states, and one lemma per action. *)

LEMMA InitInv == Init => IInv
<1> USE DEF Idle, Empty
<1>1. <<>> \in Seq(BOOLEAN)  OBVIOUS
<1> QED  BY <1>1, ABlocks DEF Init, IInv, CacheTypeOK, Distinct, ServersKnow, EntriesHold, AnswersHold

\* A server between requests owns nothing.
LEMMA IdleServer ==
    ASSUME IInv, NEW s \in Server, At(s, "idle")
    PROVE  server[s] = Idle
BY DEF IInv, ServersKnow, At

\* What the invariant says of a server in set_tensor.
LEMMA BusyServer ==
    ASSUME IInv, NEW s \in Server, ~At(s, "idle")
    PROVE  Storing(s)
BY DEF IInv, ServersKnow, At, Idle

\* After Returns the server knows nothing, and nothing need be shown of it.
LEMMA Returning ==
    ASSUME IInv, OneServer, NEW s \in Server, Returns(s)
    PROVE  /\ ServersKnow'
           /\ server' \in [Server -> [at : Place,
                 tensor : Tensor \cup {None}, inode : Inode \cup {None}, written : 0..Blocks]]
BY ABlocks DEF IInv, CacheTypeOK, OneServer, Returns, ServersKnow, Idle

LEMMA SetTensorInv ==
    ASSUME IInv, OneServer, NEW s \in Server, NEW t \in Tensor, SetTensor(s, t)
    PROVE  IInv'
<1>1. ~HoldsWhole(t)
  <2>1. HoldsWhole(t) => content[entry[t]].blocks = Written(t, Blocks).blocks
    BY WholeIsWritten DEF HoldsWhole
  <2>2. Len(Written(t, Blocks).blocks) = Blocks  BY WrittenType, ABlocks
  <2> QED  BY <2>1, <2>2 DEF SetTensor, HoldsWhole
<1>2. server[s] = Idle /\ server' = [server EXCEPT ![s] =
        [at |-> "open", tensor |-> t, inode |-> None, written |-> 0]]
  BY IdleServer DEF SetTensor
<1>3. CacheTypeOK'  BY <1>2, ABlocks DEF IInv, CacheTypeOK, SetTensor
<1>4. ServersKnow'
  <2>1. ~HoldsWhole(t)'  BY <1>1 DEF HoldsWhole, SetTensor
  <2>2. server'[s] = [at |-> "open", tensor |-> t, inode |-> None, written |-> 0]
    BY <1>2 DEF IInv, CacheTypeOK
  <2> QED  BY <2>1, <2>2 DEF OneServer, ServersKnow, Storing
<1> QED  BY <1>3, <1>4 DEF IInv, Distinct, EntriesHold, AnswersHold, SetTensor

LEMMA OpenTmpInv ==
    ASSUME IInv, OneServer, NEW s \in Server, OpenTmp(s)
    PROVE  IInv'
<1> DEFINE t == server[s].tensor
<1>1. At(s, "open") /\ Storing(s)  BY BusyServer DEF OpenTmp, At
<1>2. t \in Tensor /\ ~HoldsWhole(t) /\ server[s].written = 0
  BY <1>1 DEF Storing, At
<1>3. PICK i \in IF tmp[t] # None THEN {tmp[t]} ELSE Inode \ InUse :
        /\ tmp' = [tmp EXCEPT ![t] = i]
        /\ content' = [content EXCEPT ![i] = [of |-> t, blocks |-> <<>>]]
        /\ server' = [server EXCEPT ![s].at = "write", ![s].inode = i]
  BY DEF OpenTmp
<1>4. UNCHANGED <<entry, answer>>  BY DEF OpenTmp
<1>5. i \in Inode  BY <1>2, <1>3 DEF IInv, CacheTypeOK
<1>6. \A u \in Tensor : entry[u] # i  BY <1>2, <1>3, <1>5, ANone DEF IInv, Distinct, InUse
<1>7. \A u \in Tensor : u # t => tmp[u] # i
  BY <1>2, <1>3, <1>5, ANone DEF IInv, Distinct, InUse
<1>8. [of |-> t, blocks |-> <<>>] = Written(t, 0)
  <2>1. <<>> = [b \in 1..0 |-> TRUE]  BY SMT
  <2> QED  BY <2>1 DEF Written
<1>9. CacheTypeOK'
  <2>1. Written(t, 0) \in [of : Tensor \cup {None}, blocks : Seq(BOOLEAN)]  BY <1>2, WrittenType
  <2>2. content' \in [Inode -> [of : Tensor \cup {None}, blocks : Seq(BOOLEAN)]]
    BY <1>3, <1>8, <2>1 DEF IInv, CacheTypeOK
  <2>3. server' \in [Server -> [at : Place,
                 tensor : Tensor \cup {None}, inode : Inode \cup {None}, written : 0..Blocks]]
    <3>1. server' = [server EXCEPT ![s] = [server[s] EXCEPT !.at = "write", !.inode = i]]
      BY <1>3 DEF IInv, CacheTypeOK
    <3>2. server \in [Server -> [at : Place,
                 tensor : Tensor \cup {None}, inode : Inode \cup {None}, written : 0..Blocks]]
      BY DEF IInv, CacheTypeOK
    <3> QED  BY <1>5, <3>1, <3>2
  <2> QED  BY <1>2, <1>3, <1>4, <1>5, <2>2, <2>3 DEF IInv, CacheTypeOK
<1>10. Distinct'  BY <1>2, <1>3, <1>4, <1>5, <1>6, <1>7 DEF IInv, CacheTypeOK, Distinct
<1>11. ServersKnow'
  <2>1. server'[s].at = "write" /\ server'[s].tensor = t /\ server'[s].inode = i
        /\ server'[s].written = 0
    BY <1>2, <1>3 DEF IInv, CacheTypeOK
  <2>2. content'[i] = Written(t, 0) /\ tmp'[t] = i
    BY <1>2, <1>3, <1>5, <1>8 DEF IInv, CacheTypeOK
  <2>3. ~HoldsWhole(t)'  BY <1>2, <1>3, <1>4, <1>6 DEF IInv, CacheTypeOK, HoldsWhole
  <2> QED  BY <1>2, <1>4, <1>5, <2>1, <2>2, <2>3 DEF OneServer, ServersKnow, Storing
<1>12. EntriesHold'
  <2>1. \A j \in Inode : j # i => content'[j] = content[j]
    BY <1>3 DEF IInv, CacheTypeOK
  <2> QED  BY <1>4, <1>6, <2>1 DEF IInv, CacheTypeOK, EntriesHold
<1> QED  BY <1>4, <1>9, <1>10, <1>11, <1>12 DEF IInv, AnswersHold

LEMMA WriteBlockInv ==
    ASSUME IInv, OneServer, NEW s \in Server, WriteBlock(s)
    PROVE  IInv'
<1> DEFINE t == server[s].tensor
           i == server[s].inode
           n == server[s].written
<1>1. (At(s, "write") \/ At(s, "close")) /\ Storing(s) /\ n < Blocks
  BY BusyServer DEF WriteBlock, At
<1>2. /\ t \in Tensor /\ ~HoldsWhole(t) /\ i \in Inode /\ tmp[t] = i
      /\ content[i] = Written(t, n) /\ n \in Nat /\ n + 1 \in 0..Blocks
  BY <1>1, ABlocks DEF Storing, At, IInv, CacheTypeOK
<1>3. content' = [content EXCEPT ![i] = Written(t, n + 1)]
  <2>1. Len(content[i].blocks) = n /\ DOMAIN content[i].blocks = 1..n
        /\ content[i].blocks = Written(t, n).blocks
    BY <1>2, WrittenType
  <2> DEFINE size == IF Len(content[i].blocks) < n + 1 THEN n + 1 ELSE Len(content[i].blocks)
             Wrote(m, old) == [b \in 1..m |-> b = n + 1 \/ (b \in DOMAIN old /\ old[b])]
  <2>5. size = n + 1  BY <1>2, <2>1
  <2>6. content' = [content EXCEPT ![i].blocks = Wrote(size, content[i].blocks)]
    BY Zenon DEF WriteBlock
  <2>7. content' = [content EXCEPT ![i].blocks = Wrote(n + 1, Written(t, n).blocks)]
    <3> HIDE DEF size, Wrote
    <3> QED  BY <2>1, <2>5, <2>6
  <2>8. DOMAIN Written(t, n).blocks = 1..n  BY <1>2, WrittenType
  <2>2. content' = [content EXCEPT ![i].blocks =
                      [b \in 1..(n + 1) |-> b = n + 1 \/ (b \in 1..n /\ Written(t, n).blocks[b])]]
    BY <2>7, <2>8, Zenon
  <2>3. content' = [content EXCEPT ![i].blocks = Written(t, n + 1).blocks]
    BY <1>2, <2>2, NextBlock
  <2>4. [content[i] EXCEPT !.blocks = Written(t, n + 1).blocks] = Written(t, n + 1)
    <3>1. \A f, g : [[of |-> t, blocks |-> f] EXCEPT !.blocks = g] = [of |-> t, blocks |-> g]
      OBVIOUS
    <3>2. \A m : Written(t, m) = [of |-> t, blocks |-> Written(t, m).blocks]  BY DEF Written
    <3>3. content[i] = [of |-> t, blocks |-> Written(t, n).blocks]  BY <1>2, <3>2
    <3> QED  BY <3>1, <3>2, <3>3
  <2> QED  BY <1>2, <2>3, <2>4 DEF IInv, CacheTypeOK
<1>4. server' = [server EXCEPT ![s].written = n + 1] /\ UNCHANGED <<entry, tmp, answer>>
  BY DEF WriteBlock
<1>5. CacheTypeOK'
  <2>1. Written(t, n + 1) \in [of : Tensor \cup {None}, blocks : Seq(BOOLEAN)]
    BY <1>2, WrittenType
  <2>2. content' \in [Inode -> [of : Tensor \cup {None}, blocks : Seq(BOOLEAN)]]
    BY <1>3, <2>1 DEF IInv, CacheTypeOK
  <2>3. server' \in [Server -> [at : Place,
                 tensor : Tensor \cup {None}, inode : Inode \cup {None}, written : 0..Blocks]]
    <3>1. server' = [server EXCEPT ![s] = [server[s] EXCEPT !.written = n + 1]]
      BY <1>4 DEF IInv, CacheTypeOK
    <3>2. server \in [Server -> [at : Place,
                 tensor : Tensor \cup {None}, inode : Inode \cup {None}, written : 0..Blocks]]
      BY DEF IInv, CacheTypeOK
    <3> QED  BY <1>2, <3>1, <3>2
  <2> QED  BY <1>4, <2>2, <2>3 DEF IInv, CacheTypeOK
<1>6. ServersKnow'
  <2>1. server'[s].at = server[s].at /\ server'[s].tensor = t /\ server'[s].inode = i
        /\ server'[s].written = n + 1
    BY <1>1, <1>4 DEF At, IInv, CacheTypeOK
  <2>2. content'[i] = Written(t, n + 1)  BY <1>2, <1>3 DEF IInv, CacheTypeOK
  <2>3. \A j \in Inode : j # i => content'[j] = content[j]
    BY <1>3 DEF IInv, CacheTypeOK
  <2>4. entry[t] # None => entry[t] # i  BY <1>2 DEF IInv, Distinct
  <2>5. ~HoldsWhole(t)'  BY <1>2, <1>4, <2>3, <2>4 DEF IInv, CacheTypeOK, HoldsWhole
  <2>6. server[s].at \in {"write", "close"} /\ (server[s].at = "close" => n >= Blocks - Buffered)
    BY <1>1 DEF At, Storing
  <2>7. server[s].at = "close" => n + 1 >= Blocks - Buffered
    BY <1>2, <2>6, ABlocks, ABuffered
  <2>8. Storing(s)'  BY <1>2, <1>4, <2>1, <2>2, <2>5, <2>6, <2>7 DEF Storing
  <2> QED  BY <2>1, <2>6, <2>8 DEF OneServer, ServersKnow
<1>7. EntriesHold'
  <2>1. \A j \in Inode : j # i => content'[j] = content[j]
    BY <1>3 DEF IInv, CacheTypeOK
  <2>2. \A u \in Tensor : entry[u] # None => entry[u] # i  BY <1>2 DEF IInv, Distinct
  <2> QED  BY <1>4, <2>1, <2>2 DEF IInv, CacheTypeOK, EntriesHold
<1> QED  BY <1>4, <1>5, <1>6, <1>7 DEF IInv, Distinct, AnswersHold

LEMMA WriteFailsInv ==
    ASSUME IInv, OneServer, NEW s \in Server, WriteFails(s)
    PROVE  IInv'
<1>1. server[s].tensor \in Tensor  BY BusyServer DEF WriteFails, At, Storing
<1>2. ServersKnow'  BY Returning DEF WriteFails
<1>3. CacheTypeOK'  BY <1>1, Returning DEF IInv, CacheTypeOK, WriteFails
<1>4. Distinct'  BY <1>1 DEF IInv, CacheTypeOK, Distinct, WriteFails
<1> QED  BY <1>2, <1>3, <1>4 DEF IInv, EntriesHold, AnswersHold, WriteFails

\* The test and the close change nothing but the server's place.
LEMMA ClosingInv ==
    ASSUME IInv, OneServer, NEW s \in Server, StreamGood(s) \/ Closed(s)
    PROVE  IInv'
<1> DEFINE next == IF At(s, "write") THEN "close" ELSE "commit"
<1>1. /\ server' = [server EXCEPT ![s].at = next] /\ UNCHANGED <<entry, tmp, content, answer>>
      /\ server[s].at \in {"write", "close"}
  BY DEF StreamGood, Closed, At
<1>2. Storing(s)  BY <1>1, BusyServer DEF At
<1>3. CacheTypeOK'
  <2> DEFINE Servers == [Server -> [at : Place, tensor : Tensor \cup {None}, inode : Inode \cup {None},
                                    written : 0..Blocks]]
  <2>1. server \in Servers  BY DEF IInv, CacheTypeOK
  <2>2. server' = [server EXCEPT ![s] = [server[s] EXCEPT !.at = next]]  BY <1>1, <2>1
  <2>3. next \in Place  OBVIOUS
  <2>4. server' \in Servers
    <3> HIDE DEF next
    <3> QED  BY <2>1, <2>2, <2>3
  <2> QED  BY <1>1, <2>4 DEF IInv, CacheTypeOK
<1>4. server[s].written >= Blocks - Buffered  BY BusyServer DEF StreamGood, Closed, At, Storing
<1>5. /\ server'[s].at = next /\ server'[s].tensor = server[s].tensor
      /\ server'[s].inode = server[s].inode /\ server'[s].written = server[s].written
  BY <1>1 DEF IInv, CacheTypeOK
<1>6. ServersKnow'
  <2>1. HoldsWhole(server[s].tensor)' <=> HoldsWhole(server[s].tensor)
    BY <1>1, <1>5 DEF HoldsWhole
  <2> QED  BY <1>1, <1>2, <1>4, <1>5, <2>1 DEF OneServer, ServersKnow, Storing, At
<1> QED  BY <1>1, <1>3, <1>6 DEF IInv, Distinct, EntriesHold, AnswersHold

LEMMA CommitInv ==
    ASSUME IInv, OneServer, NEW s \in Server, Commit(s)
    PROVE  IInv'
<1> DEFINE t == server[s].tensor
<1>1. Storing(s) /\ server[s].at \in {"commit", "retry"}
  BY BusyServer DEF Commit, At
<1>2. t \in Tensor /\ tmp[t] \in Inode /\ \E n \in Untested : content[tmp[t]] = Written(t, n)
  <2>1. server[s].written \in Untested
    BY <1>1, UntestedLengths DEF Storing, IInv, CacheTypeOK
  <2> QED  BY <1>1, <2>1 DEF Storing
<1>3. entry' = [entry EXCEPT ![t] = tmp[t]] /\ tmp' = [tmp EXCEPT ![t] = None]
      /\ UNCHANGED <<content, answer>>
  BY DEF Commit
<1>4. ServersKnow'  BY Returning DEF Commit
<1>5. CacheTypeOK'  BY <1>2, <1>3, Returning DEF IInv, CacheTypeOK, Commit
<1>6. Distinct'  BY <1>2, <1>3, ANone DEF IInv, CacheTypeOK, Distinct
<1>7. EntriesHold'  BY <1>2, <1>3 DEF IInv, CacheTypeOK, EntriesHold
<1> QED  BY <1>3, <1>4, <1>5, <1>6, <1>7 DEF IInv, AnswersHold

LEMMA RenameFailsInv ==
    ASSUME IInv, OneServer, NEW s \in Server, RenameFails(s)
    PROVE  IInv'
<1> DEFINE t == server[s].tensor
<1>1. Storing(s) /\ At(s, "commit")  BY BusyServer DEF RenameFails, At
<1>2. t \in Tensor  BY <1>1 DEF Storing
<1>3. entry' = [entry EXCEPT ![t] = None]  BY DEF RenameFails
<1>4. UNCHANGED <<tmp, content, answer>> /\ server' = [server EXCEPT ![s].at = "retry"]
  BY DEF RenameFails
<1>5. CacheTypeOK'  BY <1>3, <1>4 DEF IInv, CacheTypeOK
<1>6. ServersKnow'
  <2>1. server'[s].at = "retry" /\ server'[s].tensor = t /\ server'[s].inode = server[s].inode
        /\ server'[s].written = server[s].written
    BY <1>1, <1>4 DEF IInv, CacheTypeOK
  <2>2. entry'[t] = None  BY <1>2, <1>3 DEF IInv, CacheTypeOK
  <2>3. ~HoldsWhole(t)'  BY <2>1, <2>2 DEF HoldsWhole
  <2> QED  BY <1>1, <1>4, <2>1, <2>3 DEF At, OneServer, ServersKnow, Storing
<1>7. \A u \in Tensor : entry'[u] # None => entry'[u] = entry[u]
  BY <1>2, <1>3 DEF IInv, CacheTypeOK
<1>8. Distinct'  BY <1>4, <1>7 DEF IInv, Distinct
<1>9. EntriesHold'  BY <1>4, <1>7 DEF IInv, EntriesHold
<1> QED  BY <1>4, <1>5, <1>6, <1>8, <1>9 DEF IInv, AnswersHold

LEMMA RetryFailsInv ==
    ASSUME IInv, OneServer, NEW s \in Server, RetryFails(s)
    PROVE  IInv'
<1>1. server[s].tensor \in Tensor  BY BusyServer DEF RetryFails, At, Storing
<1>2. ServersKnow'  BY Returning DEF RetryFails
<1>3. CacheTypeOK'  BY <1>1, Returning DEF IInv, CacheTypeOK, RetryFails
<1>4. Distinct'  BY <1>1 DEF IInv, CacheTypeOK, Distinct, RetryFails
<1> QED  BY <1>2, <1>3, <1>4 DEF IInv, EntriesHold, AnswersHold, RetryFails

LEMMA GetCachedFileInv ==
    ASSUME IInv, NEW s \in Server, NEW t \in Tensor, GetCachedFile(s, t)
    PROVE  IInv'
<1>1. answer' = None \/ \E n \in Untested : answer' = Written(t, n)
  BY DEF GetCachedFile, IInv, EntriesHold
<1>2. AnswersHold'  BY <1>1 DEF AnswersHold
<1>3. CacheTypeOK'
  <2>1. \A n \in Untested : Written(t, n) \in [of : Tensor \cup {None}, blocks : Seq(BOOLEAN)]
    BY WrittenType, UntestedLengths
  <2> QED  BY <1>1, <2>1 DEF IInv, CacheTypeOK, GetCachedFile
<1>4. UNCHANGED <<entry, tmp, content, server>>  BY DEF GetCachedFile
<1>5. ServersKnow'  BY <1>4 DEF IInv, ServersKnow, Storing, HoldsWhole
<1> QED  BY <1>2, <1>3, <1>4, <1>5 DEF IInv, Distinct, EntriesHold

LEMMA CrashInv ==
    ASSUME IInv, OneServer, NEW s \in Server, Crash(s)
    PROVE  IInv'
<1>1. ServersKnow'  BY Returning DEF Crash
<1>2. CacheTypeOK'  BY Returning DEF IInv, CacheTypeOK, Crash
<1> QED  BY <1>1, <1>2 DEF IInv, Distinct, EntriesHold, AnswersHold, Crash

LEMMA NextInv ==
    ASSUME OneServer
    PROVE  IInv /\ [Next]_vars => IInv'
<1>1. ASSUME IInv, UNCHANGED vars PROVE IInv'
  BY <1>1 DEF vars, IInv, CacheTypeOK, Distinct, ServersKnow, Storing, HoldsWhole, EntriesHold,
              AnswersHold
<1>2. ASSUME IInv, NEW s \in Server, Step(s) PROVE IInv'
  BY <1>2, SetTensorInv, GetCachedFileInv, OpenTmpInv, WriteBlockInv, WriteFailsInv, ClosingInv,
     CommitInv, RenameFailsInv, RetryFailsInv, CrashInv DEF Step
<1> QED  BY <1>1, <1>2 DEF Next
-----------------------------------------------------------------------------
(* Theorems. *)

\* The invariant holds of every execution of a single server.
THEOREM OneServerInvariance ==
    ASSUME OneServer
    PROVE  Spec => []IInv
<1>1. IInv /\ [Next]_vars => IInv'  BY NextInv
<1> QED  BY <1>1, InitInv, PTL DEF Spec

\* Every variable keeps its type: no write goes past the end of a tensor.
THEOREM CacheTypeCorrect ==
    ASSUME OneServer
    PROVE  Spec => []CacheTypeOK
<1>1. IInv => CacheTypeOK  BY DEF IInv
<1> QED  BY <1>1, OneServerInvariance, PTL

\* A file that lookups can find is never written to (set_tensor's rename).
THEOREM NeverWrittenAfterCommit ==
    ASSUME OneServer
    PROVE  Spec => []CommittedIsClosed
<1>1. ASSUME IInv PROVE CommittedIsClosed
  <2> SUFFICES ASSUME NEW s \in Server, NEW t \in Tensor, entry[t] # None
               PROVE  entry[t] # server[s].inode
    BY DEF CommittedIsClosed
  <2>1. CASE server[s].at \in {"idle", "open"}
    <3>1. server[s].inode = None  BY <1>1, <2>1 DEF IInv, ServersKnow, Storing, Idle
    <3> QED  BY <3>1
  <2>2. CASE server[s].at \in {"write", "close", "commit", "retry"}
    <3>1. server[s].tensor \in Tensor /\ tmp[server[s].tensor] = server[s].inode
      BY <1>1, <2>2 DEF IInv, ServersKnow, Storing, Idle
    <3> QED  BY <1>1, <3>1 DEF IInv, Distinct
  <2> QED  BY <1>1, <2>1, <2>2 DEF IInv, CacheTypeOK
<1> QED  BY <1>1, OneServerInvariance, PTL

\* A lookup that misses nothing but what a failing close loses: the answer is a
\* tensor without at most its last Buffered blocks (get_cached_file).
THEOREM AnswersLackTheTail ==
    ASSUME OneServer
    PROVE  Spec => []AnswersHold
<1>1. IInv => AnswersHold  BY DEF IInv
<1> QED  BY <1>1, OneServerInvariance, PTL

\* Where the stream puts nothing off to the close, every answer is whole.
THEOREM AnswersWhole ==
    ASSUME OneServer, Buffered = 0
    PROVE  Spec => [](answer = None \/ \E t \in Tensor : answer = Whole(t))
<1>1. ASSUME IInv PROVE answer = None \/ \E t \in Tensor : answer = Whole(t)
  <2>1. Untested = {Blocks}  BY ABlocks DEF Untested
  <2> QED  BY <1>1, <2>1, WholeIsWritten DEF IInv, AnswersHold
<1> QED  BY <1>1, OneServerInvariance, PTL

\* How a CacheStore sees a file that lacks at most the blocks put off.
LEMMA FormOfWritten ==
    ASSUME NEW t \in Tensor, NEW n \in Untested
    PROVE  Form(Written(t, n), t) = IF n = Blocks THEN "whole" ELSE "cut"
<1>1. n \in 0..Blocks  BY UntestedLengths
<1>2. CASE n = Blocks  BY <1>2, WholeIsWritten DEF Form
<1>3. CASE n # Blocks
  <2>1. Written(t, n) # Whole(t)  BY <1>1, <1>3, UntestedLengths
  <2>2. n \in (Blocks - Buffered)..(Blocks - 1)  BY <1>1, <1>3, ABlocks, ABuffered DEF Untested
  <2>3. Written(t, n) \in Cuts(t)  BY <2>2 DEF Cuts, Written
  <2> QED  BY <1>3, <2>1, <2>3 DEF Form
<1> QED  BY <1>2, <1>3

\* Writing goes to a file that no lookup finds.
LEMMA WritesOutside ==
    ASSUME IInv, NEW s \in Server, OpenTmp(s) \/ WriteBlock(s)
    PROVE  \E i \in Inode : /\ \A u \in Tensor : entry[u] # None => entry[u] # i
                            /\ \A j \in Inode : j # i => content'[j] = content[j]
<1> DEFINE t == server[s].tensor
<1>1. t \in Tensor  BY BusyServer DEF OpenTmp, WriteBlock, At, Storing
<1>2. CASE OpenTmp(s)
  <2>1. PICK i \in IF tmp[t] # None THEN {tmp[t]} ELSE Inode \ InUse :
          content' = [content EXCEPT ![i] = [of |-> t, blocks |-> <<>>]]
    BY <1>2 DEF OpenTmp
  <2>2. i \in Inode /\ \A u \in Tensor : entry[u] # None => entry[u] # i
    BY <1>1, <2>1 DEF IInv, CacheTypeOK, Distinct, InUse
  <2> QED  BY <2>1, <2>2 DEF IInv, CacheTypeOK
<1>3. CASE WriteBlock(s)
  <2> DEFINE i == server[s].inode
  <2>1. i \in Inode /\ tmp[t] = i  BY <1>3, BusyServer DEF WriteBlock, At, Storing
  <2>2. \A u \in Tensor : entry[u] # None => entry[u] # i  BY <1>1, <2>1 DEF IInv, Distinct
  <2>3. \E v : content' = [content EXCEPT ![i].blocks = v]  BY <1>3, Zenon DEF WriteBlock
  <2>4. \A j \in Inode : j # i => content'[j] = content[j]
    BY <2>1, <2>3 DEF IInv, CacheTypeOK
  <2> QED  BY <2>1, <2>2, <2>4
<1> QED  BY <1>2, <1>3

\* The directory implements CacheStore: a lookup answers with the tensor, with
\* the tensor cut by the blocks put off to the close, or with nothing, and no
\* crash, failed write or failed rename loses a whole tensor.
THEOREM CacheImplementsStore ==
    ASSUME OneServer
    PROVE  Spec => ImplementsStore
<1> DEFINE kept == [t \in Tensor |-> IF entry[t] = None THEN "none" ELSE Form(content[entry[t]], t)]
           told == IF answer = None THEN None ELSE <<answer.of, Form(answer, answer.of)>>
<1>1. Init => Store!Init
  BY DEF Init, Store!Init
<1>2. ASSUME IInv, NEW t \in Tensor
      PROVE  /\ entry[t] = None => kept[t] = "none"
             /\ HoldsWhole(t) => kept[t] = "whole"
             /\ entry[t] # None /\ ~HoldsWhole(t) => kept[t] = "cut"
  <2>1. CASE entry[t] = None  BY <2>1 DEF HoldsWhole
  <2>2. CASE entry[t] # None
    <3>1. PICK n \in Untested : content[entry[t]] = Written(t, n)
      BY <1>2, <2>2 DEF IInv, EntriesHold
    <3>2. kept[t] = IF n = Blocks THEN "whole" ELSE "cut"  BY <2>2, <3>1, FormOfWritten
    <3>3. HoldsWhole(t) <=> n = Blocks
      BY <2>2, <3>1, UntestedLengths, WholeIsWritten DEF HoldsWhole
    <3> QED  BY <2>2, <3>2, <3>3
  <2> QED  BY <2>1, <2>2
<1>3. ASSUME entry' = entry, answer' = answer,
             \A t \in Tensor : entry[t] # None => content'[entry[t]] = content[entry[t]]
      PROVE  UNCHANGED <<kept, told>>
  <2>1. kept' = kept  BY <1>3
  <2> QED  BY <1>3, <2>1
<1>4. ASSUME IInv, IInv', NEW s \in Server, Step(s)
      PROVE  Store!Next \/ UNCHANGED <<kept, told>>
  <2>1. CASE (\E t \in Tensor : SetTensor(s, t)) \/ WriteFails(s) \/ StreamGood(s) \/ Closed(s)
             \/ RetryFails(s) \/ Crash(s)
    <3>1. UNCHANGED <<entry, content, answer>>
      BY <2>1 DEF SetTensor, WriteFails, StreamGood, Closed, RetryFails, Crash
    <3> QED  BY <1>3, <3>1
  <2>2. ASSUME NEW t \in Tensor, GetCachedFile(s, t) PROVE Store!Next
    <3>1. UNCHANGED <<entry, content>> /\ answer' = IF entry[t] = None THEN None ELSE content[entry[t]]
      BY <2>2 DEF GetCachedFile
    <3>2. kept' = kept  BY <3>1
    <3>3. CASE entry[t] = None
      <4>1. told' = None /\ kept[t] = "none"  BY <3>1, <3>3
      <4> QED  BY <3>2, <4>1 DEF Store!Lookup, Store!Next
    <3>4. CASE entry[t] # None
      <4>1. PICK n \in Untested : content[entry[t]] = Written(t, n)
        BY <1>4, <3>4 DEF IInv, EntriesHold
      <4>2. answer' = Written(t, n) /\ answer'.of = t /\ answer' # None
        <5>1. answer' = Written(t, n)  BY <3>1, <3>4, <4>1
        <5>2. Written(t, n).of = t  BY DEF Written
        <5>3. Written(t, n) # None  BY UntestedLengths, ANone
        <5> QED  BY <5>1, <5>2, <5>3
      <4>3. told' = <<t, kept[t]>>  BY <3>4, <4>1, <4>2
      <4>4. kept[t] # "none"  BY <1>2, <1>4, <3>4
      <4> QED  BY <3>2, <4>3, <4>4 DEF Store!Lookup, Store!Next
    <3> QED  BY <3>3, <3>4
  <2>3. ASSUME OpenTmp(s) \/ WriteBlock(s) PROVE UNCHANGED <<kept, told>>
    <3>1. PICK i \in Inode : /\ \A u \in Tensor : entry[u] # None => entry[u] # i
                             /\ \A j \in Inode : j # i => content'[j] = content[j]
      BY <1>4, <2>3, WritesOutside
    <3>2. UNCHANGED <<entry, answer>>  BY <2>3 DEF OpenTmp, WriteBlock
    <3>3. \A t \in Tensor : entry[t] # None => content'[entry[t]] = content[entry[t]]
      BY <1>4, <3>1 DEF IInv, CacheTypeOK
    <3> QED  BY <1>3, <3>2, <3>3
  <2>4. ASSUME Commit(s) PROVE Store!Next
    <3>1. PICK t \in Tensor : t = server[s].tensor /\ tmp[t] # None /\ ~HoldsWhole(t)
      BY <1>4, <2>4, BusyServer DEF Commit, At, Storing
    <3>2. entry' = [entry EXCEPT ![t] = tmp[t]] /\ UNCHANGED <<content, answer>>
      BY <2>4, <3>1 DEF Commit
    <3>3. entry'[t] # None /\ \A u \in Tensor : u # t => entry'[u] = entry[u]
      BY <1>4, <3>1, <3>2 DEF IInv, CacheTypeOK
    <3>4. \A u \in Tensor : u # t => kept'[u] = kept[u]  BY <3>2, <3>3
    <3>5. kept' = [kept EXCEPT ![t] = kept'[t]]  BY <3>1, <3>4
    <3>6. kept[t] # "whole"
      <4>1. entry[t] = None \/ entry[t] # None  OBVIOUS
      <4> QED  BY <1>2, <1>4, <3>1, <4>1
    <3>7. kept'[t] \in {"cut", "whole"}
      <4>1. PICK n \in Untested : content'[entry'[t]] = Written(t, n)
        BY <1>4, <3>1, <3>3 DEF IInv, EntriesHold
      <4>2. kept'[t] = Form(Written(t, n), t)  BY <3>1, <3>3, <4>1
      <4> QED  BY <3>1, <4>2, FormOfWritten
    <3>8. told' = told  BY <3>2
    <3>9. CASE kept'[t] = "cut"
      <4>1. kept' = [kept EXCEPT ![t] = "cut"]  BY <3>5, <3>9
      <4>2. Store!Cut(t)  BY <3>6, <3>8, <4>1, Zenon DEF Store!Cut
      <4> QED  BY <3>1, <4>2, Zenon DEF Store!Next
    <3>10. CASE kept'[t] = "whole"
      <4>1. kept' = [kept EXCEPT ![t] = "whole"]  BY <3>5, <3>10
      <4>2. Store!Store(t)  BY <3>8, <4>1, Zenon DEF Store!Store
      <4> QED  BY <3>1, <4>2, Zenon DEF Store!Next
    <3> QED  BY <3>7, <3>9, <3>10
  <2>5. ASSUME RenameFails(s) PROVE Store!Next \/ UNCHANGED <<kept, told>>
    <3>1. PICK t \in Tensor : t = server[s].tensor /\ ~HoldsWhole(t)
      BY <1>4, <2>5, BusyServer DEF RenameFails, At, Storing
    <3>2. entry' = [entry EXCEPT ![t] = None] /\ UNCHANGED <<content, answer>>
      BY <2>5, <3>1 DEF RenameFails
    <3>3. CASE entry[t] = None
      <4>1. entry' = entry  BY <1>4, <3>1, <3>2, <3>3 DEF IInv, CacheTypeOK
      <4> QED  BY <1>3, <3>2, <4>1
    <3>4. CASE entry[t] # None
      <4>1. kept[t] = "cut"  BY <1>2, <1>4, <3>1, <3>4
      <4>2. entry'[t] = None /\ \A u \in Tensor : u # t => entry'[u] = entry[u]
        BY <1>4, <3>1, <3>2 DEF IInv, CacheTypeOK
      <4>3. kept' = [kept EXCEPT ![t] = "none"]
        <5>1. \A u \in Tensor : u # t => kept'[u] = kept[u]  BY <3>2, <4>2
        <5>2. kept'[t] = "none"  BY <3>1, <4>2
        <5> QED  BY <3>1, <5>1, <5>2
      <4>4. told' = told  BY <3>2
      <4>5. Store!Drop(t)  BY <4>1, <4>3, <4>4, Zenon DEF Store!Drop
      <4> QED  BY <3>1, <4>5, Zenon DEF Store!Next
    <3> QED  BY <3>3, <3>4
  <2> QED  BY <1>4, <2>1, <2>2, <2>3, <2>4, <2>5 DEF Step
<1>5. ASSUME UNCHANGED vars PROVE UNCHANGED <<kept, told>>
  BY <1>3, <1>5 DEF vars
<1>6. IInv /\ IInv' /\ [Next]_vars => [Store!Next]_(<<kept, told>>)
  <2> HIDE DEF kept, told
  <2> QED  BY <1>4, <1>5 DEF Next
<1>7. Spec => []IInv  BY OneServerInvariance
<1> QED  BY <1>1, <1>6, <1>7, PTL DEF Spec, ImplementsStore, Store!Spec
=============================================================================
