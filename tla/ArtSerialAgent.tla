--------------------------- MODULE ArtSerialAgent ---------------------------
(***************************************************************************)
(* The Atheros ART serial agent (artserialagent.c, the ART_PORT_COM build *)
(* that "#if 1" selects).  It relays between the ART host on a serial     *)
(* line and the AR6002 through the driver's raw HTC ioctls.  Each host    *)
(* packet is a 4-byte little-endian length and a body.  The agent writes  *)
(* the body to the device in fragments of at most fragsize bytes.  It     *)
(* then reads the device's reply, a 4-byte length and a body, and sends   *)
(* both to the host.  A body whose byte 2 is DISCONNECT_PIPE_CMD_ID or    *)
(* CLOSE_PIPE_CMD_ID closes the raw HTC pipe and ends the program.        *)
(*                                                                         *)
(* The host and the device are the other actors.  The serial line and the *)
(* device's reply stream are byte sequences.  com_recv() loops until it   *)
(* has exactly the bytes asked for, so a read of n bytes is one step once *)
(* n bytes have arrived.                                                   *)
(***************************************************************************)
EXTENDS Integers, Sequences, SequencesExt

CONSTANTS
  LineSize,      \* LINE_ARRAY_SIZE, the size of the static buffer line[]
  FragChoices,   \* the values atoi(argv[3]) may give fragsize
  DebugChoices,  \* the values art_debug may take from argv[4] (0 when absent)
  Cmds,          \* the bodies the host may send (byte sequences)
  Replies,       \* the bodies the device may answer with
  MaxPackets,    \* how many packets the host sends
  ShortWrites,   \* whether a raw write may accept fewer bytes than given
  OpenMayFail    \* whether the socket or the HTC_RAW_OPEN ioctl may fail

DISCONNECT_PIPE_CMD_ID == 16
CLOSE_PIPE_CMD_ID      == 17

\* memcpy(&pktlen, line, 4) on a little-endian CPU, and its inverse.
LE32(b) == b[1] + 256 * b[2] + 65536 * b[3] + 16777216 * b[4]
Header(n) == <<n % 256, (n \div 256) % 256, (n \div 65536) % 256, n \div 16777216>>
Frame(body) == Header(Len(body)) \o body

\* Mutant: every fragment taken from the start of line[].
Slice_FromStart(l, from, n) == [i \in 1..n |-> l[i - 1]]

\* n bytes of line[] (indexed from 0) from index from, and line[] with its
\* first bytes overwritten by data.
Slice(l, from, n) == [i \in 1..n |-> l[from + i - 1]]
Fill(l, data) == [i \in DOMAIN l |-> IF i < Len(data) THEN data[i + 1] ELSE l[i]]

VARIABLES
  pc, fragsize,    \* where main() is; main()'s fragsize
  line, pktlen, len, pos,   \* main()'s buffer and locals (pos is an index into line)
  rx, tx,          \* the serial line: host to agent (unread), agent to host (all sent)
  devIn, devOut,   \* bytes the device has accepted; reply bytes the driver holds
  sent, written, replies, relayed   \* histories: host packets, commands written,
                                    \* device replies, replies relayed

vars == <<pc, fragsize, line, pktlen, len, pos, rx, tx, devIn, devOut, sent, written, replies, relayed>>
agent == <<pc, fragsize, line, pktlen, len, pos>>


-----------------------------------------------------------------------------
(***************************************************************************)
(* art_htc_raw_write(): the ioctl copies buflen bytes of the fragment and *)
(* returns the count the driver accepted.  Its failure branch (free() of  *)
(* the static art_htc_buf, return 0) is not among the outcomes: it is     *)
(* undefined behaviour, and a 0 return spins the loop (see the hazards).  *)
(***************************************************************************)
art_htc_raw_write(n) == IF ShortWrites THEN 1..n ELSE {n}

\* Mutant: always a whole fragsize, past the end of the body.
FragLen_Full(l) == fragsize

\* Mutant: the last fragment one byte short.
FragLen_OffByOne(l) == IF l > fragsize THEN fragsize ELSE l - 1

\* The fragment main() hands to art_htc_raw_write().
FragLen(l) == IF l > fragsize THEN fragsize ELSE l

\* com_send(): write() of the bytes to the serial line.
com_send(out, buf, n) == out \o Slice(buf, 0, n)

\* Mutant: the reply body read with the host packet's length.
ReplyLen_Stale(hdr, old) == old

\* memcpy(&pktlen, line, 4) after the reply header.
ReplyLen(hdr, old) == LE32(hdr)

IsClose(l) == l[2] \in {DISCONNECT_PIPE_CMD_ID, CLOSE_PIPE_CMD_ID}

-----------------------------------------------------------------------------
Init ==
  /\ pc = "start" /\ fragsize = 80 /\ line = [i \in 0..LineSize - 1 |-> 0]
  /\ pktlen = 0 /\ len = 0 /\ pos = 0
  /\ rx = <<>> /\ tx = <<>> /\ devIn = <<>> /\ devOut = <<>>
  /\ sent = <<>> /\ written = 0 /\ replies = <<>> /\ relayed = 0

(***************************************************************************)
(* main() up to the loop: with art_debug set it skips the device and the  *)
(* loop; the socket and HTC_RAW_OPEN may fail; com_init()'s result is not *)
(* checked; a fragsize that is not a positive multiple of 4 ends it.      *)
(***************************************************************************)
Start ==
  /\ pc = "start"
  /\ \E d \in DebugChoices, f \in FragChoices :
     \/ d # 0 /\ pc' = "exit" /\ fragsize' = f
     \/ d = 0 /\ OpenMayFail /\ pc' = "exit" /\ UNCHANGED fragsize
     \/ d = 0 /\ (f <= 0 \/ f % 4 # 0) /\ pc' = "exit" /\ fragsize' = f
     \/ d = 0 /\ f > 0 /\ f % 4 = 0 /\ pc' = "hdr" /\ fragsize' = f
  /\ UNCHANGED <<line, pktlen, len, pos, rx, tx, devIn, devOut, sent, written, replies, relayed>>

\* com_recv(cid, line, 4) and the length it carries.
RecvHeader ==
  /\ pc = "hdr" /\ Len(rx) >= 4
  /\ line' = Fill(line, SubSeq(rx, 1, 4))
  /\ pktlen' = LE32(SubSeq(rx, 1, 4))
  /\ rx' = SubSeq(rx, 5, Len(rx))
  /\ pc' = "body"
  /\ UNCHANGED <<fragsize, len, pos, tx, devIn, devOut, sent, written, replies, relayed>>

(* com_recv(cid, line, pktlen), then the close test on line[2], which     *)
(* reads whatever line[2] holds when the body is shorter than 3 bytes.    *)
(* com_recv() of 0 bytes waits for data, reads 0 and exits.               *)
RecvBody ==
  /\ pc = "body"
  /\ \/ pktlen = 0 /\ rx # <<>> /\ pc' = "exit" /\ UNCHANGED <<line, len, pos, rx>>
     \/ /\ pktlen > 0 /\ Len(rx) >= pktlen
        /\ line' = Fill(line, SubSeq(rx, 1, pktlen))
        /\ rx' = SubSeq(rx, pktlen + 1, Len(rx))
        /\ len' = pktlen /\ pos' = 0
        /\ pc' = IF IsClose(line') THEN "exit" ELSE "write"
  /\ UNCHANGED <<fragsize, pktlen, tx, devIn, devOut, sent, written, replies, relayed>>

\* One pass of the fragment loop: pos += ret; len -= ret.
WriteFragment ==
  /\ pc = "write"
  /\ \E ret \in art_htc_raw_write(FragLen(len)) :
       /\ devIn' = devIn \o Slice(line, pos, ret)
       /\ pos' = pos + ret /\ len' = len - ret
       /\ IF len - ret = 0 THEN pc' = "rdhdr" /\ written' = written + 1
                           ELSE UNCHANGED <<pc, written>>
  /\ UNCHANGED <<fragsize, line, pktlen, rx, tx, devOut, sent, replies, relayed>>

(* art_htc_raw_read(aid, line, 4): the driver blocks until the reply is   *)
(* there; the four bytes are sent on to the host and give the body's      *)
(* length.                                                                 *)
ReadReplyHeader ==
  /\ pc = "rdhdr" /\ Len(devOut) >= 4
  /\ line' = Fill(line, SubSeq(devOut, 1, 4))
  /\ devOut' = SubSeq(devOut, 5, Len(devOut))
  /\ tx' = com_send(tx, line', 4)
  /\ pktlen' = ReplyLen(SubSeq(devOut, 1, 4), pktlen)
  /\ pc' = "rdbody"
  /\ UNCHANGED <<fragsize, len, pos, rx, devIn, sent, written, replies, relayed>>

\* art_htc_raw_read(aid, line, pktlen) and com_send(cid, line, pktlen).
ReadReplyBody ==
  /\ pc = "rdbody" /\ Len(devOut) >= pktlen
  /\ line' = Fill(line, SubSeq(devOut, 1, pktlen))
  /\ devOut' = SubSeq(devOut, pktlen + 1, Len(devOut))
  /\ tx' = com_send(tx, line', pktlen)
  /\ relayed' = relayed + 1
  /\ pc' = "hdr"
  /\ UNCHANGED <<fragsize, pktlen, len, pos, rx, devIn, sent, written, replies>>

(***************************************************************************)
(* The host sends a packet; the device answers each command once all of   *)
(* it has been written.                                                    *)
(***************************************************************************)
HostSend ==
  /\ Len(sent) < MaxPackets
  /\ \E c \in Cmds : rx' = rx \o Frame(c) /\ sent' = Append(sent, c)
  /\ UNCHANGED <<agent, tx, devIn, devOut, written, replies, relayed>>

DeviceReply ==
  /\ written > Len(replies)
  /\ \E r \in Replies : devOut' = devOut \o Frame(r) /\ replies' = Append(replies, r)
  /\ UNCHANGED <<agent, rx, tx, devIn, sent, written, relayed>>

Next == Start \/ RecvHeader \/ RecvBody \/ WriteFragment \/ ReadReplyHeader
        \/ ReadReplyBody \/ HostSend \/ DeviceReply

\* main() is one loop that blocks in read() and the raw ioctls; the device
\* answers every command it is given.  The host gets no fairness.
Spec == Init /\ [][Next]_vars
        /\ WF_vars(Start \/ RecvHeader \/ RecvBody \/ WriteFragment
                   \/ ReadReplyHeader \/ ReadReplyBody)
        /\ WF_vars(DeviceReply)

-----------------------------------------------------------------------------
TypeOK ==
  /\ pc \in {"start", "hdr", "body", "write", "rdhdr", "rdbody", "exit"}
  /\ line \in [0..LineSize - 1 -> 0..255]
  /\ len \in 0..LineSize /\ pos \in 0..LineSize /\ pos + len <= LineSize
  /\ written \in 0..MaxPackets /\ relayed \in 0..MaxPackets

(* Between two packets the device has received exactly the bodies of the  *)
(* commands the agent has handled, in order and without gap or repeat,    *)
(* however the fragment loop cut them and however many bytes each raw     *)
(* write accepted.                                                         *)
CommandsRelayed ==
  pc \in {"hdr", "rdhdr", "rdbody"} =>
    devIn = FlattenSeq([i \in 1..written |-> sent[i]])

(* Between two packets the host has received the device's replies, each   *)
(* as its length header and body, in order and once each.                 *)
RepliesRelayed ==
  pc = "hdr" => tx = FlattenSeq([i \in 1..relayed |-> Frame(replies[i])])

(* Every non-empty packet the host sends is answered, unless a close     *)
(* command or an empty packet ended the agent: the fragment loop, the     *)
(* reads and the relay never stall.                                       *)
EveryCommandAnswered ==
  \A k \in 1..MaxPackets :
    (Len(sent) >= k /\ sent[k] # <<>>) ~> (relayed >= k \/ pc = "exit")
=============================================================================
