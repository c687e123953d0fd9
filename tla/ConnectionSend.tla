-------------------------- MODULE ConnectionSend --------------------------
(***************************************************************************)
(* The send path of a memcached Connection (src/unnamed/part_000): the    *)
(* write pipe, the iovec array split into msghdrs of at most IOV_MAX      *)
(* entries, the DCP producer callbacks that fill them, and transmit(),    *)
(* which hands one msghdr at a time to sendmsg and uses adjust_msghdr to  *)
(* drop what the kernel took, releasing write-pipe bytes as they go.      *)
(*                                                                         *)
(* One DCP ship cycle: addMsgHdr(true) resets the lists, the producer     *)
(* adds frames until it has nothing more or a frame does not fit          *)
(* (ENGINE_E2BIG), then transmit runs until Complete, SoftError (wait for *)
(* EV_WRITE) or HardError (closing).  Data are abstracted to their        *)
(* identity: byte k of iovec id is <<id, k, src>>, src "pipe" for bytes   *)
(* in the write pipe and "item" for key and value bytes sent from the     *)
(* item itself.  The pipe is its read and write offsets.                   *)
(***************************************************************************)
EXTENDS Naturals, Sequences, SequencesExt

CONSTANTS
    IovMax,      \* IOV_MAX: iovecs per msghdr
    PipeCap,     \* capacity of the write pipe
    HdrLen,      \* bytes of a frame header (request, extras) in the pipe
    LebMax,      \* unsigned_leb128<CollectionIDType>::getMaxSize()
    PacketLens,  \* sizes of frames built whole (add_packet_to_send_pipe)
    KeyLens,     \* sizes of document keys
    ValueLens,   \* sizes of values, xattr payloads and extended meta
    MaxShips,    \* ship cycles
    MaxFrames    \* frames per ship cycle

VARIABLES
    phase,       \* "step", "send", "wait", "ship" or "closed"
    msglist,     \* the msghdrs: each a sequence of iovecs
    msgcurr,     \* index of the msghdr being sent
    pipeR,       \* write pipe: read offset (consumed up to here)
    pipeW,       \* write pipe: write offset (produced up to here)
    queued,      \* the bytes the iovecs described when they were added
    received,    \* the bytes sendmsg handed to the kernel, in order
    nextId,      \* identity of the next iovec
    frames,      \* frames added in this ship cycle
    ships,       \* ship cycles so far
    closeCause   \* why transmit closed: "none", "socket_error",
                 \* "update_event", "returned_0"

vars == <<phase, msglist, msgcurr, pipeR, pipeW, queued, received, nextId,
          frames, ships, closeCause>>

----------------------------------------------------------------------------
PipeIov(id, poff, len) ==
    [id |-> id, src |-> "pipe", poff |-> poff, sent |-> 0, len |-> len]
ItemIov(id, len) ==
    [id |-> id, src |-> "item", poff |-> 0, sent |-> 0, len |-> len]

\* The bytes an iovec still describes, and those of a whole msghdr.
Bytes(iov) == [k \in 1 .. iov.len |-> <<iov.id, iov.sent + k - 1, iov.src>>]
MsgBytes(m) == FlattenSeq([i \in 1 .. Len(m) |-> Bytes(m[i])])

\* Mutant: a new msghdr is started only once the last one is past IOV_MAX.
AddIovPastMax(ml, iov) ==
    IF iov.len = 0 THEN ml
    ELSE IF Len(Last(ml)) > IovMax THEN Append(ml, <<iov>>)
    ELSE [ml EXCEPT ![Len(ml)] = Append(@, iov)]

\* addIov: an empty buffer is not added; a full msghdr starts a new one.
AddIov(ml, iov) ==
    IF iov.len = 0 THEN ml
    ELSE IF Len(Last(ml)) = IovMax THEN Append(ml, <<iov>>)
    ELSE [ml EXCEPT ![Len(ml)] = Append(@, iov)]

RECURSIVE AddIovs(_, _)
AddIovs(ml, iovs) ==
    IF iovs = <<>> THEN ml ELSE AddIovs(AddIov(ml, Head(iovs)), Tail(iovs))

\* The iovec's base is the pipe's read position: rbuf.data() == iov_base.
AtPipeHead(iov, r) == iov.src = "pipe" /\ iov.poff + iov.sent = r

\* The loop of adjust_msghdr: completed iovecs are dropped, consuming their
\* bytes from the pipe when they start at its read position.
RECURSIVE DropCompleted(_, _, _)
DropCompleted(m, n, r) ==
    IF m # <<>> /\ n >= m[1].len
    THEN DropCompleted(Tail(m), n - m[1].len,
                       IF AtPipeHead(m[1], r) THEN r + m[1].len ELSE r)
    ELSE [m |-> m, n |-> n, r |-> r]

\* Mutant: a partly written iovec keeps its base.
AdjustKeepsBase(m, nbytes, r, after) ==
    LET l == DropCompleted(m, nbytes, r)
        m2 == IF l.n > 0 THEN [l.m EXCEPT ![1].len = @ - l.n] ELSE l.m
    IN  [m |-> m2, r |-> IF l.n > 0 /\ AtPipeHead(l.m[1], l.r)
                         THEN l.r + l.n ELSE l.r,
         ret |-> IF m2 = <<>> THEN after ELSE m2[1].len]

\* Mutant: the pipe is not consumed for a partly written iovec.
AdjustPartialNoConsume(m, nbytes, r, after) ==
    LET l == DropCompleted(m, nbytes, r)
        m2 == IF l.n > 0
              THEN [l.m EXCEPT ![1].sent = @ + l.n, ![1].len = @ - l.n]
              ELSE l.m
    IN  [m |-> m2, r |-> l.r,
         ret |-> IF m2 = <<>> THEN after ELSE m2[1].len]

\* Mutant: the bytes left over are returned instead of the iovec's length.
AdjustReturnsLeftover(m, nbytes, r, after) ==
    LET l == DropCompleted(m, nbytes, r)
        m2 == IF l.n > 0
              THEN [l.m EXCEPT ![1].sent = @ + l.n, ![1].len = @ - l.n]
              ELSE l.m
    IN  [m |-> m2, r |-> IF l.n > 0 /\ AtPipeHead(l.m[1], l.r)
                         THEN l.r + l.n ELSE l.r,
         ret |-> l.n]

(***************************************************************************)
(* adjust_msghdr(pipe, m, nbytes): the msghdr without the nbytes sent, the *)
(* new pipe read offset, and the length of the iovec m->msg_iov points at. *)
(* When the whole msghdr was sent, msg_iov points one past its last entry *)
(* and the value read is `after', whatever that slot of the iovec array    *)
(* holds.                                                                  *)
(***************************************************************************)
adjust_msghdr(m, nbytes, r, after) ==
    LET l == DropCompleted(m, nbytes, r)
        m2 == IF l.n > 0
              THEN [l.m EXCEPT ![1].sent = @ + l.n, ![1].len = @ - l.n]
              ELSE l.m
    IN  [m |-> m2, r |-> IF l.n > 0 /\ AtPipeHead(l.m[1], l.r)
                         THEN l.r + l.n ELSE l.r,
         ret |-> IF m2 = <<>> THEN after ELSE m2[1].len]

\* Mutant: transmit does not skip msghdrs that are already written.
NoSkip(ml, c) == c

\* The loop at the top of transmit: skip msghdrs with no iovecs left.
SkipEmpty(ml, c) ==
    IF \E j \in c .. Len(ml) : ml[j] # <<>>
    THEN CHOOSE j \in c .. Len(ml) :
             ml[j] # <<>> /\ \A i \in c .. j - 1 : ml[i] = <<>>
    ELSE Len(ml) + 1

\* The values the entry after a msghdr's last iovec can hold: the first
\* iovec of the next msghdr, or an entry no msghdr uses (stale from an
\* earlier cycle, or past the end of the array: any length).
After(ml, c) ==
    IF c < Len(ml) /\ ml[c + 1] # <<>> THEN {ml[c + 1][1].len} ELSE {0, 1}

\* The count of write-pipe bytes in a sequence of bytes.
PipeBytes(s) == Len(SelectSeq(s, LAMBDA b : b[3] = "pipe"))

----------------------------------------------------------------------------
Init ==
    /\ phase = "ship"
    /\ msglist = <<<<>>>>
    /\ msgcurr = 1
    /\ pipeR = 0
    /\ pipeW = 0
    /\ queued = <<>>
    /\ received = <<>>
    /\ nextId = 0
    /\ frames = 0
    /\ ships = 0
    /\ closeCause = "none"

\* Mutant: ship cycles without a bound.
StartShipUnbounded ==
    /\ phase = "ship"
    /\ phase' = "step"
    /\ msglist' = <<<<>>>>
    /\ msgcurr' = 1
    /\ queued' = <<>>
    /\ received' = <<>>
    /\ frames' = 0
    /\ ships' = ships + 1
    /\ pipeR' = 0
    /\ pipeW' = pipeW - pipeR
    /\ UNCHANGED <<nextId, closeCause>>

\* conn_ship_log: addMsgHdr(true) starts a new list of msghdrs before the
\* producer is stepped; the write pipe is packed (unread bytes moved to
\* offset 0), no iovec pointing into it any more.
StartShip ==
    /\ phase = "ship"
    /\ ships < MaxShips
    /\ phase' = "step"
    /\ msglist' = <<<<>>>>
    /\ msgcurr' = 1
    /\ queued' = <<>>
    /\ received' = <<>>
    /\ frames' = 0
    /\ ships' = ships + 1
    /\ pipeR' = 0
    /\ pipeW' = pipeW - pipeR
    /\ UNCHANGED <<nextId, closeCause>>

\* A frame whose `inPipe' bytes are produced into the write pipe and whose
\* iovecs are added in order; ENGINE_E2BIG when the pipe has less than
\* `need' bytes free, and the producer stops for this cycle.
Produce(need, inPipe, iovs) ==
    /\ phase = "step"
    /\ frames < MaxFrames
    /\ \/ /\ PipeCap - pipeW >= need
          /\ pipeW' = pipeW + inPipe
          /\ msglist' = AddIovs(msglist, iovs)
          /\ queued' = queued \o FlattenSeq([i \in 1 .. Len(iovs) |-> Bytes(iovs[i])])
          /\ nextId' = nextId + Len(iovs)
          /\ frames' = frames + 1
          /\ UNCHANGED phase
       \/ /\ PipeCap - pipeW < need
          /\ phase' = "send"
          /\ UNCHANGED <<pipeW, msglist, queued, nextId, frames>>
    /\ UNCHANGED <<msgcurr, pipeR, received, ships, closeCause>>

\* add_packet_to_send_pipe: control, noop, marker, stream_end, commit,
\* abort, seqno_acknowledged ... frames, copied whole into the pipe.
AddPacketToSendPipe(len) ==
    Produce(len, len, <<PipeIov(nextId, pipeW, len)>>)

\* mutation and prepare: the header in the pipe, key and value sent from
\* the item (an empty value adds no iovec).
Mutation(keyLen, valueLen) ==
    Produce(HdrLen, HdrLen,
            <<PipeIov(nextId, pipeW, HdrLen), ItemIov(nextId + 1, keyLen),
              ItemIov(nextId + 2, valueLen)>>)

\* deletionInner: the header and extended meta in the pipe (room for the
\* collection id reserved), key and xattr payload from the item.
DeletionInner(keyLen, nbytes, metaLen) ==
    Produce(HdrLen + LebMax + metaLen, HdrLen + metaLen,
            <<PipeIov(nextId, pipeW, HdrLen), ItemIov(nextId + 1, keyLen),
              ItemIov(nextId + 2, nbytes),
              PipeIov(nextId + 3, pipeW + HdrLen, metaLen)>>)

\* The producer messages built whole and copied into the pipe:
\* get_failover_log, stream_req, add_stream_rsp, marker_rsp,
\* set_vbucket_state_rsp, stream_end and marker ...
StreamFrame(len) == AddPacketToSendPipe(len)

\* ... set_vbucket_state, noop, buffer_acknowledgement, control,
\* system_event and get_error_map ...
ControlFrame(len) == AddPacketToSendPipe(len)

\* ... and seqno_acknowledged, commit and abort.
DurabilityFrame(len) == AddPacketToSendPipe(len)

\* prepare: as mutation, its header the request and the prepare extras.
Prepare(keyLen, valueLen) == Mutation(keyLen, valueLen)

\* deletion and expiration (v1, with extended meta) go through
\* deletionInner; deletion_v2 and expiration in v2 (deletionOrExpirationV2)
\* send no extended meta.
Deletion(keyLen, nbytes, metaLen) == DeletionInner(keyLen, nbytes, metaLen)
DeletionOrExpirationV2(keyLen, nbytes) == DeletionInner(keyLen, nbytes, 0)

\* The producer has nothing more to send this cycle: transmit.
EndStep ==
    /\ phase = "step"
    /\ queued # <<>>
    /\ phase' = "send"
    /\ UNCHANGED <<msglist, msgcurr, pipeR, pipeW, queued, received, nextId,
                   frames, ships, closeCause>>

(***************************************************************************)
(* transmit(): skip written msghdrs; Complete when none is left.  Else     *)
(* sendmsg takes some prefix of the msghdr's bytes, fails with EWOULDBLOCK *)
(* (SoftError once updateEvent(EV_WRITE) has re-registered the event, or   *)
(* HardError and closing when that fails), or fails otherwise (HardError: *)
(* closing); a return of 0 is a failure too.  After a send,               *)
(* adjust_msghdr's result decides whether the msghdr is done.             *)
(***************************************************************************)
Transmit ==
    /\ phase = "send"
    /\ LET c == SkipEmpty(msglist, msgcurr)
           m == msglist[c]
           total == Len(MsgBytes(m))
       IN  \/ /\ c > Len(msglist)
              /\ phase' = "ship"
              /\ msgcurr' = c
              /\ UNCHANGED <<msglist, pipeR, received, closeCause>>
           \/ /\ c <= Len(msglist)
              /\ \E res \in 1 .. total, after \in After(msglist, c) :
                   LET a == adjust_msghdr(m, res, pipeR, after)
                       next == IF a.ret = 0 THEN c + 1 ELSE c
                   IN  /\ received' = received \o SubSeq(MsgBytes(m), 1, res)
                       /\ msglist' = [msglist EXCEPT ![c] = a.m]
                       /\ pipeR' = a.r
                       /\ msgcurr' = next
                       /\ phase' = IF next > Len(msglist) THEN "ship" ELSE "send"
              /\ UNCHANGED closeCause
           \/ /\ c <= Len(msglist)
              /\ total > 0
              /\ \/ /\ phase' = "wait"
                    /\ UNCHANGED closeCause
                 \/ /\ phase' = "closed"
                    /\ closeCause' = "update_event"
              /\ msgcurr' = c
              /\ UNCHANGED <<msglist, pipeR, received>>
           \/ /\ c <= Len(msglist)
              /\ closeCause' \in {"socket_error"} \cup
                                 (IF total = 0 THEN {"returned_0"} ELSE {})
              /\ phase' = "closed"
              /\ msgcurr' = c
              /\ UNCHANGED <<msglist, pipeR, received>>
    /\ UNCHANGED <<pipeW, queued, nextId, frames, ships>>

\* libevent reports the socket writable again.
WriteEvent ==
    /\ phase = "wait"
    /\ phase' = "send"
    /\ UNCHANGED <<msglist, msgcurr, pipeR, pipeW, queued, received, nextId,
                   frames, ships, closeCause>>

Next ==
    \/ StartShip
    \/ \E len \in PacketLens :
          \/ StreamFrame(len)
          \/ ControlFrame(len)
          \/ DurabilityFrame(len)
    \/ \E k \in KeyLens, v \in ValueLens :
          \/ Mutation(k, v)
          \/ Prepare(k, v)
          \/ DeletionOrExpirationV2(k, v)
    \/ \E k \in KeyLens, n, meta \in ValueLens : Deletion(k, n, meta)
    \/ EndStep
    \/ Transmit
    \/ WriteEvent

Spec == Init /\ [][Next]_vars

----------------------------------------------------------------------------
Byte == Nat \X Nat \X {"pipe", "item"}
Iov == [id : Nat, src : {"pipe", "item"}, poff : Nat, sent : Nat, len : Nat]

\* The variables keep their types, and no msghdr holds more than IOV_MAX
\* iovecs: addIov starts a new msghdr when the last one is full.
TypeOK ==
    /\ phase \in {"ship", "step", "send", "wait", "closed"}
    /\ msglist \in Seq(Seq(Iov))
    /\ msgcurr \in 1 .. Len(msglist) + 1
    /\ pipeR \in 0 .. PipeCap /\ pipeW \in 0 .. PipeCap
    /\ queued \in Seq(Byte) /\ received \in Seq(Byte)
    /\ nextId \in Nat
    /\ frames \in 0 .. MaxFrames
    /\ ships \in 0 .. MaxShips
    /\ closeCause \in {"none", "socket_error", "update_event", "returned_0"}
    /\ \A k \in 1 .. Len(msglist) : Len(msglist[k]) <= IovMax

(***************************************************************************)
(* The peer receives the bytes of the frames exactly in the order their    *)
(* iovecs were added, with none repeated or skipped, however sendmsg      *)
(* splits them (adjust_msghdr's bookkeeping of partial writes).           *)
(***************************************************************************)
DeliveredInOrder == IsPrefix(received, queued)

(***************************************************************************)
(* The write pipe holds exactly the pipe bytes the peer has not received:  *)
(* adjust_msghdr consumes a pipe byte when, and only when, it is sent.     *)
(***************************************************************************)
PipeHoldsExactlyUnsent == pipeW - pipeR = PipeBytes(queued) - PipeBytes(received)

(***************************************************************************)
(* transmit returns Complete only when every byte added has been sent.     *)
(***************************************************************************)
CompleteMeansDelivered ==
    [][phase = "send" /\ phase' = "ship" => received' = queued']_vars

(***************************************************************************)
(* transmit never hands sendmsg a msghdr with nothing to send, so it never *)
(* closes the connection because sendmsg returned 0, the case the comment *)
(* at part_000:951-955 calls impossible: the skip of written msghdrs,      *)
(* adjust_msghdr's return and addIov's split at IOV_MAX keep msgcurr on a  *)
(* msghdr with bytes left.                                                 *)
(***************************************************************************)
NoEmptySend == closeCause # "returned_0"

====
