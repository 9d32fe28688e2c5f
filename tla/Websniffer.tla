----------------------------- MODULE Websniffer -----------------------------
(***************************************************************************)
(* The packet sniffer of lndw22_doc/websniffer around its reassembly: the  *)
(* thread of sniffer.py that writes what a RIOT node hears to a file, a    *)
(* line for each packet, the page's button that empties the file, and the  *)
(* web sockets of main.py, each with a task that reads the file.           *)
(*                                                                         *)
(* The node prints a header for each packet, then a dump of NLines lines.  *)
(* Files are sequences of what is written to them: a header, a line of the *)
(* dump, the end of a line, and the zeros of a hole.  Reading and closing  *)
(* run in threads of their own while the task awaits them.                 *)
(***************************************************************************)
EXTENDS Integers, Sequences, SequencesExt

CONSTANTS Sockets,          \* web sockets
          NPkts, NLines,    \* packets heard, lines of a packet's dump
          Fragments,        \* packets that are not sent but added to the reassembly
          MaxFaults         \* bound on the SerialExceptions and the times the file
                            \* is emptied, together

Packets == 1..NPkts

ASSUME WebsnifferAssumption ==
  /\ NPkts \in Nat /\ NLines \in Nat \ {0} /\ Fragments \subseteq Packets
  /\ MaxFaults \in Nat

VARIABLES
  \* The sniffer's thread:
  printed,          \* lines the node has printed
  thread,           \* "down" or "up"
  length,           \* lines of the dump still to come
  buffer,           \* written to out, and not flushed
  \* The file:
  content, offset,  \* the offset is the thread's own
  \* By web socket:
  ws,               \* "new", "open" or "closed"
  pktfile,          \* "none", "open" or "closed"
  task,             \* step of send_pkts: "none", "read", "line", "error", "ended"
                    \* or "dead"
  pos, ahead,       \* how far the file was read, what of that was not asked for
  line,             \* the line read last
  handled,          \* packets sent or added to the reassembly
  \* History:
  faults,
  end,              \* where a packet's line ends in the file, or 0
  dangling,         \* a SerialException left a line without end
  cut,              \* packets hit by a SerialException
  torn,             \* by web socket: packets read while they were written
  emptied           \* by web socket: packets lost to emptying

threadVars == <<printed, thread, length, buffer>>
fileVars == <<content, offset>>
socketVars == <<ws, pktfile, task, pos, ahead, line, handled>>
history == <<faults, end, dangling, cut, torn, emptied>>
vars == <<threadVars, fileVars, socketVars, history>>

Item(is, p) == [is |-> is, pkt |-> p]
End == Item("end", 0)
Zero == Item("zero", 0)

Init ==
  /\ printed = 0 /\ thread = "down" /\ length = 0 /\ buffer = <<>>
  /\ content = <<>> /\ offset = 0 /\ faults = 0
  /\ ws = [s \in Sockets |-> "new"]
  /\ pktfile = [s \in Sockets |-> "none"] /\ task = [s \in Sockets |-> "none"]
  /\ pos = [s \in Sockets |-> 0] /\ ahead = [s \in Sockets |-> <<>>]
  /\ line = [s \in Sockets |-> <<>>] /\ handled = [s \in Sockets |-> <<>>]
  /\ end = [p \in Packets |-> 0] /\ dangling = FALSE /\ cut = {}
  /\ torn = [s \in Sockets |-> {}] /\ emptied = [s \in Sockets |-> {}]

(***************************************************************************)
(* The sniffer's thread                                                    *)
(***************************************************************************)

\* The next line of the node: line 0 of a packet is its header.
Pkt == printed \div (NLines + 1) + 1
LineNo == printed % (NLines + 1)
NodePrints == Pkt \in Packets /\ printed' = printed + 1

\* What was buffered goes to where the thread's file is, which leaves a hole if
\* the file was emptied; a reader that had not come that far finds the zeros in
\* front of the next header.
Hole == [i \in 1..offset - Len(content) |-> Zero]
Flush(items) ==
  /\ buffer' = <<>>
  /\ content' = IF items = <<>> THEN content ELSE content \o Hole \o items
  /\ offset' = offset + Len(items)
  /\ emptied' = [s \in Sockets |->
                   emptied[s] \cup
                     IF items # <<>> /\ Hole # <<>> /\ pos[s] < offset
                     THEN {items[1].pkt} ELSE {}]

\* The header is not flushed.
HeaderLine ==
  /\ thread = "up" /\ LineNo = 0 /\ NodePrints
  /\ buffer' = Append(buffer, Item("header", Pkt))
  /\ length' = NLines
  /\ cut' = IF dangling THEN cut \cup {Pkt} ELSE cut
  /\ dangling' = FALSE
  /\ UNCHANGED <<thread, fileVars, socketVars, faults, end, torn, emptied>>

\* Mutant: the line ends only when more was dumped than announced.
EndsLate(left) == IF left < 0 THEN <<End>> ELSE <<>>
EndOfLine(left) == IF left <= 0 THEN <<End>> ELSE <<>>

\* A line of a dump whose header was missed is written, too, and ended at once.
DataLine ==
  /\ thread = "up" /\ LineNo > 0 /\ NodePrints
  /\ length' = IF length <= 1 THEN 0 ELSE length - 1
  /\ Flush(Append(buffer, Item("data", Pkt)) \o EndOfLine(length - 1))
  /\ end' = IF LineNo = NLines THEN [end EXCEPT ![Pkt] = offset'] ELSE end
  /\ dangling' = (dangling /\ length > 1)
  /\ UNCHANGED <<thread, socketVars, faults, cut, torn>>

\* Any other line, or none within a second.
OtherLine ==
  /\ thread = "up" /\ buffer # <<>>
  /\ Flush(buffer)
  /\ UNCHANGED <<printed, thread, length, socketVars, faults, end, dangling, cut, torn>>

SerialException ==
  /\ thread = "up" /\ faults < MaxFaults
  /\ thread' = "down" /\ faults' = faults + 1
  /\ dangling' = (dangling \/ length > 0)
  /\ cut' = IF LineNo > 0 THEN cut \cup {Pkt} ELSE cut
  /\ UNCHANGED <<printed, length, buffer, fileVars, socketVars, end, torn, emptied>>

\* The port is closed, or config reads the line.
MissLine ==
  /\ thread = "down" /\ NodePrints
  /\ cut' = cut \cup {Pkt}
  /\ UNCHANGED <<thread, length, buffer, fileVars, socketVars, faults, end, dangling, torn,
                 emptied>>

\* The thread may stay down for ever: the port is gone, or config raised an
\* AssertionError, which run does not catch.
Connect ==
  /\ thread = "down"
  /\ thread' = "up" /\ length' = 0
  /\ UNCHANGED <<printed, buffer, fileVars, socketVars, history>>

\* EmptyPktfile.  The thread's offset stays.
EmptyFile ==
  /\ faults < MaxFaults
  /\ faults' = faults + 1
  /\ content' = <<>>
  /\ emptied' = [s \in Sockets |->
                   emptied[s] \cup
                     {content[i].pkt : i \in {j \in DOMAIN content : j > pos[s]}}]
  /\ UNCHANGED <<offset, threadVars, socketVars, end, dangling, cut, torn>>

(***************************************************************************)
(* The web sockets                                                         *)
(***************************************************************************)

\* send_pkts looks at self.pktfile after an exception, and at the file's end.
Again(s) == IF pktfile[s] = "none" THEN "ended" ELSE "read"

Open(s) ==
  /\ ws[s] = "new"
  /\ ws' = [ws EXCEPT ![s] = "open"]
  /\ pktfile' = [pktfile EXCEPT ![s] = "open"]
  /\ task' = [task EXCEPT ![s] = "read"]
  /\ UNCHANGED <<threadVars, fileVars, pos, ahead, line, handled, history>>

\* A thread reads a line, or what there is when the file ends.
ToEnd(items) == SelectInSeq(items, LAMBDA i : i.is = "end")

Unread(s) ==
  ahead[s] \o IF ToEnd(ahead[s]) = 0 THEN SubSeq(content, pos[s] + 1, Len(content))
                                     ELSE <<>>

\* Mutant: a line without end is read again.
KeepsPart(items, n) == IF ToEnd(items) = 0 THEN items ELSE SubSeq(items, n + 1, Len(items))
Rest(items, n) == SubSeq(items, n + 1, Len(items))

ReadLine(s) ==
  /\ task[s] = "read" /\ pktfile[s] = "open"
  /\ LET items == Unread(s)
         n == IF ToEnd(items) = 0 THEN Len(items) ELSE ToEnd(items)
     IN
     /\ line' = [line EXCEPT ![s] = SubSeq(items, 1, n)]
     /\ ahead' = [ahead EXCEPT ![s] = Rest(items, n)]
     /\ pos' = [pos EXCEPT ![s] = @ + Len(items) - Len(ahead[s])]
     /\ torn' = IF ToEnd(items) > 0 THEN torn
                ELSE [torn EXCEPT ![s] = @ \cup {i.pkt : i \in ToSet(items)}]
  /\ task' = [task EXCEPT ![s] = "line"]
  /\ UNCHANGED <<threadVars, fileVars, ws, pktfile, handled, faults, end, dangling,
                 cut, emptied>>

\* A file that is closed raises a ValueError, which is caught and logged.
ReadFails(s) ==
  /\ task[s] = "read" /\ pktfile[s] # "open"
  /\ task' = [task EXCEPT ![s] = "error"]
  /\ UNCHANGED <<threadVars, fileVars, ws, pktfile, pos, ahead, line, handled, history>>

ErrorLogged(s) ==
  /\ task[s] = "error"
  /\ task' = [task EXCEPT ![s] = Again(s)]
  /\ UNCHANGED <<threadVars, fileVars, ws, pktfile, pos, ahead, line, handled, history>>

\* The regular expression asks for a header and a dump, and takes the part of a
\* line for one.
Dump(items) == SubSeq(items, 2, Len(items) - IF Last(items) = End THEN 1 ELSE 0)
IsPacket(items) ==
  /\ items # <<>> /\ items[1].is = "header"
  /\ Dump(items) # <<>>
  /\ \A i \in ToSet(Dump(items)) : i.is = "data"
Whole(p, items) == Dump(items) = [i \in 1..NLines |-> Item("data", p)]

\* The line is at the event loop again: a packet is sent, or is a fragment and
\* added to the reassembly.
Handles(s, p) ==
  /\ ws[s] = "open"
  /\ handled' = [handled EXCEPT ![s] =
                   Append(@, [pkt |-> p, whole |-> Whole(p, line[s])])]
  /\ task' = [task EXCEPT ![s] = "read"]

\* write_message raises once the browser has gone; on_close has set rb to None,
\* and the AttributeError for it is not caught.
TooLate(s, p) ==
  /\ ws[s] = "closed"
  /\ task' = [task EXCEPT ![s] = IF p \in Fragments THEN "dead" ELSE Again(s)]
  /\ UNCHANGED handled

Ignores(s) ==
  /\ task' = [task EXCEPT ![s] = IF line[s] = <<>> THEN Again(s) ELSE "read"]
  /\ UNCHANGED handled

HandleLine(s) ==
  /\ task[s] = "line"
  /\ \/ IsPacket(line[s]) /\ LET p == line[s][1].pkt IN Handles(s, p) \/ TooLate(s, p)
     \/ ~IsPacket(line[s]) /\ Ignores(s)
  /\ line' = [line EXCEPT ![s] = <<>>]
  /\ UNCHANGED <<threadVars, fileVars, ws, pktfile, pos, ahead, history>>

\* The reassembly goes, too: rb is None from here on.  What the browser was told
\* goes with it.
on_close(s) ==
  /\ ws[s] = "open"
  /\ ws' = [ws EXCEPT ![s] = "closed"]
  /\ handled' = [handled EXCEPT ![s] = <<>>]
  /\ torn' = [torn EXCEPT ![s] = {}]
  /\ UNCHANGED <<threadVars, fileVars, pktfile, task, pos, ahead, line, faults, end,
                 dangling, cut, emptied>>

\* close_pktfile: a thread closes the file, then the event loop forgets it.
CloseFile(s) ==
  /\ ws[s] = "closed" /\ pktfile[s] = "open"
  /\ pktfile' = [pktfile EXCEPT ![s] = "closed"]
  /\ pos' = [pos EXCEPT ![s] = 0] /\ ahead' = [ahead EXCEPT ![s] = <<>>]
  /\ UNCHANGED <<threadVars, fileVars, ws, task, line, handled, history>>

\* Mutant: the file is closed and kept.
KeepsFile(s) == "closed"
NoFile(s) == "none"

ForgetFile(s) ==
  /\ pktfile[s] = "closed"
  /\ pktfile' = [pktfile EXCEPT ![s] = NoFile(s)]
  /\ UNCHANGED <<threadVars, fileVars, ws, task, pos, ahead, line, handled, history>>

Sniffer == \/ HeaderLine \/ DataLine \/ OtherLine \/ SerialException \/ MissLine
           \/ Connect

\* What the event loop and its threads do for a socket by themselves.
send_pkts(s) == ReadLine(s) \/ ReadFails(s) \/ ErrorLogged(s) \/ HandleLine(s)
close_pktfile(s) == CloseFile(s) \/ ForgetFile(s)

Next ==
  \/ Sniffer \/ EmptyFile
  \/ \E s \in Sockets : Open(s) \/ send_pkts(s) \/ on_close(s) \/ close_pktfile(s)

\* The event loop and its threads run what is ready.
Fairness == \A s \in Sockets : WF_vars(send_pkts(s)) /\ WF_vars(close_pktfile(s))

Spec == Init /\ [][Next]_vars /\ Fairness

-----------------------------------------------------------------------------
(***************************************************************************)
(* Properties                                                              *)
(***************************************************************************)

TypeOK ==
  /\ printed \in Nat /\ length \in 0..NLines /\ faults \in 0..MaxFaults
  /\ thread \in {"down", "up"}
  /\ offset \in Nat /\ Len(content) <= offset
  /\ ws \in [Sockets -> {"new", "open", "closed"}]
  /\ pktfile \in [Sockets -> {"none", "open", "closed"}]
  /\ task \in [Sockets -> {"none", "read", "line", "error", "ended", "dead"}]
  /\ pos \in [Sockets -> 0..offset]
  /\ dangling \in BOOLEAN /\ cut \subseteq Packets

\* A browser is told of the packets in the order in which they were heard, and of
\* none twice, though its task reads a file that is written, emptied and left
\* with holes and half lines under it.
InOrderOnce ==
  TypeOK /\ \A s \in Sockets : \A i, j \in DOMAIN handled[s] :
              i < j => handled[s][i].pkt < handled[s][j].pkt

\* A packet that is in the file is handed on, whole, by the task that reads past
\* it, unless the task met the end of the file inside its line, the serial port
\* failed inside it or the line before it, or the file was emptied too early.
Past(s, p) == end[p] > 0 /\ end[p] <= pos[s] - Len(ahead[s])
MissedForAReason ==
  \A s \in Sockets : \A p \in Packets \ (cut \cup torn[s] \cup emptied[s]) :
    ws[s] = "open" /\ task[s] = "read" /\ Past(s, p) =>
      [pkt |-> p, whole |-> TRUE] \in ToSet(handled[s])

\* When a browser has gone its file is closed, and its task ends, wherever it was,
\* if only by an exception.
ClosedEnds ==
  \A s \in Sockets :
    ws[s] = "closed" ~> pktfile[s] = "none" /\ task[s] \in {"ended", "dead"}

=============================================================================
