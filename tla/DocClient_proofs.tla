--------------------------- MODULE DocClient_proofs ---------------------------
(***************************************************************************)
(* Theorems about the client for every set of addresses, credentials and   *)
(* keys, every length of a response, and every mixture of commands.        *)
(*                                                                         *)
(* The switch and the topics of the shell share no variables, so that the  *)
(* inductive invariant is a conjunction of five independent ones: a step    *)
(* disturbs at most one of them.                                           *)
(***************************************************************************)
EXTENDS DocClient, SequenceTheorems, TLAPS

-----------------------------------------------------------------------------
(***************************************************************************)
(* The inductive invariant, by what it is about                            *)
(***************************************************************************)

\* No news of the switch is still to be taken by the interrupt.
NoEdge == ~edge /\ isr # "post"

\* The event is in the queue from its posting to the end of the interrupt; and
\* what a thread has read of the switch is true, or its news are on their way.
SwitchInv ==
  /\ switch \in BOOLEAN /\ edge \in BOOLEAN /\ queued \in BOOLEAN
  /\ led \in BOOLEAN /\ reported \in BOOLEAN /\ overtaken \in BOOLEAN
  /\ isr \in {"idle", "post", "read", "led"}
  /\ handler \in {"idle", "read", "print"}
  /\ main \in {"read", "led", "shell"}
  /\ seen \in [Thread -> BOOLEAN]
  /\ isr \in {"read", "led"} => queued
  /\ NoEdge /\ ~queued /\ handler = "print" => seen["event"] = switch
  /\ NoEdge /\ ~queued /\ handler = "idle" => reported = switch
  /\ ~edge /\ isr = "led" => seen["isr"] = switch
  /\ main = "led" /\ ~overtaken => seen["main"] = switch
  /\ LedFollowsSwitch

ServerInv ==
  /\ topics \in Sessions /\ uri \in BOOLEAN /\ proxy \in BOOLEAN /\ bad_addr \in BOOLEAN
  /\ server \in [addr : Addrs \cup {"none"}, port : BOOLEAN, family : BOOLEAN]
  /\ ServerUsable

\* A buffer starts with a string.
StartsWith(bufs, h, s) == \A i \in 1..Len(s) : bufs[h][i] = s[i]
Bufs == [Half -> [1..PskLen -> Chars \cup {"0"}]]

\* The buffers start with the PSK copied last and, unless it fills its own, with
\* its ID; and gcoap_dns knows the lengths of each credential it was handed.
CredsInv ==
  /\ strings \in Bufs /\ behind \in Half \cup {"none"}
  /\ creds \in [Tags -> [Half -> 0..PskLen]]
  /\ copied \in [Half -> Psks \cup {<<>>}]
  /\ added \in [Tags -> [Half -> Psks \cup {<<>>}]]
  /\ copied \in Creds =>
       /\ StartsWith(strings, "psk", copied["psk"])
       /\ Len(copied["psk"]) < PskLen => StartsWith(strings, "id", copied["id"])
  /\ \A t \in Tags : creds[t]["psk"] > 0 =>
       added[t] \in Creds /\ \A h \in Half : creds[t][h] = Len(added[t][h])

\* What was given in order is still there.
CtxInv ==
  /\ userctx \in [alg : BOOLEAN, sender : BOOLEAN, recipient : BOOLEAN]
  /\ in_order \in 0..3 /\ secctx \in BOOLEAN
  /\ in_order > 0 => userctx.alg
  /\ in_order > 1 => userctx.sender
  /\ in_order > 2 => userctx.recipient

\* What was said is what the buffer starts with.
RespInv ==
  /\ mock \in [1..MsgLen -> Bytes \cup {0}]
  /\ mock_len \in 0..MsgLen - 1
  /\ said \in Seq(Bytes) /\ Len(said) = mock_len
  /\ \A i \in 1..mock_len : mock[i] = said[i]

IInv == SwitchInv /\ ServerInv /\ CredsInv /\ CtxInv /\ RespInv

\* The shell's part depends on the shell's variables only.
ShellInv == ServerInv /\ CredsInv /\ CtxInv /\ RespInv

LEMMA SameShell == ShellInv /\ UNCHANGED shellVars => ShellInv'
<1> SUFFICES ASSUME ShellInv, UNCHANGED shellVars PROVE ShellInv'
  OBVIOUS
<1> USE DEF ShellInv, shellVars, serverVars, credVars, ctxVars, respVars
<1>1. ServerInv' /\ CtxInv'
  BY DEF ServerInv, ServerUsable, CtxInv
<1>2. CredsInv'
  BY DEF CredsInv, Creds, Psks, Bufs, StartsWith
<1>3. RespInv'
  BY DEF RespInv
<1> QED
  BY <1>1, <1>2, <1>3

\* Likewise the switch's part.
LEMMA SameSwitch == SwitchInv /\ UNCHANGED switchVars => SwitchInv'
BY DEF SwitchInv, switchVars, NoEdge, LedFollowsSwitch, SwitchAtRest

-----------------------------------------------------------------------------
(***************************************************************************)
(* PSKs and pieces of a response are sequences                             *)
(***************************************************************************)

LEMMA PskSeq ==
  ASSUME NEW s \in Psks
  PROVE  s \in Seq(Chars) /\ Len(s) \in 1..PskLen /\ \A i \in 1..Len(s) : s[i] \in Chars
BY DocClientAssumption DEF Psks

LEMMA PieceSeq ==
  ASSUME NEW p \in Pieces
  PROVE  p \in Seq(Bytes) /\ Len(p) \in Nat /\ \A i \in 1..Len(p) : p[i] \in Bytes
BY DocClientAssumption DEF Pieces

\* strcpy: the buffers keep their type, the one copied to starts with the string,
\* and the other is left alone by a string that does not fill its own.
LEMMA StrCpyCopies ==
  ASSUME NEW bufs \in Bufs, NEW h \in Half, NEW s \in Psks
  PROVE  /\ StrCpy(bufs, h, s) \in Bufs
         /\ StartsWith(StrCpy(bufs, h, s), h, s)
         /\ Len(s) < PskLen => \A g \in Half \ {h} : StrCpy(bufs, h, s)[g] = bufs[g]
<1>1. /\ Len(s) \in 1..PskLen /\ PskLen \in Nat \ {0}
      /\ \A i \in 1..Len(s) : s[i] \in Chars
  BY PskSeq, DocClientAssumption
<1>2. \A g \in Half : Terminated(bufs[g], s) \in [1..PskLen -> Chars \cup {"0"}]
  BY <1>1 DEF Terminated, Bufs
<1>3. \A g \in Half : [bufs[g] EXCEPT ![1] = "0"] \in [1..PskLen -> Chars \cup {"0"}]
  BY <1>1 DEF Bufs
<1>4. \A g \in Half : bufs[g] \in [1..PskLen -> Chars \cup {"0"}]
  BY DEF Bufs
<1>5. StrCpy(bufs, h, s) \in Bufs
  BY <1>2, <1>3, <1>4 DEF StrCpy, Bufs
<1>6. StrCpy(bufs, h, s)[h] = Terminated(bufs[h], s)
  BY DEF StrCpy
<1>7. \A i \in 1..Len(s) : Terminated(bufs[h], s)[i] = s[i]
  BY <1>1 DEF Terminated
<1>8. Len(s) < PskLen => \A g \in Half \ {h} : StrCpy(bufs, h, s)[g] = bufs[g]
  BY <1>1 DEF StrCpy
<1> QED
  BY <1>5, <1>6, <1>7, <1>8 DEF StartsWith

\* Both copies: the PSK is whole, its ID if the PSK does not fill its buffer.
LEMMA CopyBothCopies ==
  ASSUME strings \in Bufs, NEW c \in Creds
  PROVE  /\ CopyBoth(c) \in Bufs
         /\ StartsWith(CopyBoth(c), "psk", c["psk"])
         /\ Len(c["psk"]) < PskLen => StartsWith(CopyBoth(c), "id", c["id"])
<1> DEFINE b == StrCpy(strings, "id", c["id"])
<1>1. c["id"] \in Psks /\ c["psk"] \in Psks /\ "id" \in Half /\ "psk" \in Half
  BY DEF Creds, Half
<1>2. b \in Bufs /\ StartsWith(b, "id", c["id"])
  BY <1>1, StrCpyCopies
<1> HIDE DEF b
<1>3. /\ StrCpy(b, "psk", c["psk"]) \in Bufs
      /\ StartsWith(StrCpy(b, "psk", c["psk"]), "psk", c["psk"])
      /\ Len(c["psk"]) < PskLen => StrCpy(b, "psk", c["psk"])["id"] = b["id"]
  BY <1>1, <1>2, StrCpyCopies
<1>4. CopyBoth(c) = StrCpy(b, "psk", c["psk"])
  BY DEF CopyBoth, b
<1> QED
  BY <1>2, <1>3, <1>4 DEF StartsWith

\* _parse_hex: a piece that fits is written where it belongs, nothing before it
\* changes, and the buffer keeps its type.
LEMMA WrittenWrites ==
  ASSUME RespInv, NEW start \in 0..MsgLen - 1, NEW p \in Pieces, Fits(start, p)
  PROVE  /\ Written(start, p) \in [1..MsgLen -> Bytes \cup {0}]
         /\ \A i \in 1..start : Written(start, p)[i] = mock[i]
         /\ \A i \in 1..Len(p) : Written(start, p)[start + i] = p[i]
<1> USE DocClientAssumption DEF Fits, Written, RespInv
<1>1. Len(p) \in Nat /\ \A i \in 1..Len(p) : p[i] \in Bytes
  BY PieceSeq
<1>2. Written(start, p) \in [1..MsgLen -> Bytes \cup {0}]
  BY <1>1
<1>3. \A i \in 1..start : Written(start, p)[i] = mock[i]
  BY <1>1
<1>4. \A i \in 1..Len(p) : Written(start, p)[start + i] = p[i]
  BY <1>1
<1> QED
  BY <1>2, <1>3, <1>4

-----------------------------------------------------------------------------
(***************************************************************************)
(* The initial states                                                      *)
(***************************************************************************)

LEMMA InitIInv == Init => IInv
<1> SUFFICES ASSUME Init PROVE IInv
  OBVIOUS
<1> USE DocClientAssumption DEF Init
<1>1. SwitchInv
  <2>1. edge \in BOOLEAN /\ queued \in BOOLEAN
    OBVIOUS
  <2>2. overtaken \in BOOLEAN
    OBVIOUS
  <2>3. seen \in [Thread -> BOOLEAN]
    OBVIOUS
  <2> QED
    BY <2>1, <2>2, <2>3 DEF SwitchInv, NoEdge, LedFollowsSwitch
<1>2. ServerInv
  <2>1. uri \in BOOLEAN /\ proxy \in BOOLEAN /\ bad_addr \in BOOLEAN
    OBVIOUS
  <2>2. server \in [addr : Addrs \cup {"none"}, port : BOOLEAN, family : BOOLEAN]
    OBVIOUS
  <2> QED
    BY <2>1, <2>2 DEF ServerInv, ServerUsable
<1>3. CredsInv
  <2>1. copied \notin Creds
    <3>1. copied["psk"] = <<>> /\ Len(<<>>) = 0 /\ "psk" \in Half
      BY DEF Half
    <3>2. <<>> \notin Psks
      BY <3>1, PskSeq
    <3> QED
      BY <3>1, <3>2 DEF Creds
  <2>2. strings \in Bufs
    BY DEF Bufs
  <2>3. creds \in [Tags -> [Half -> 0..PskLen]] /\ \A t \in Tags : creds[t]["psk"] = 0
    BY DEF Half
  <2>4. /\ copied \in [Half -> Psks \cup {<<>>}]
        /\ added \in [Tags -> [Half -> Psks \cup {<<>>}]]
    OBVIOUS
  <2> QED
    BY <2>1, <2>2, <2>3, <2>4 DEF CredsInv
<1>4. CtxInv
  <2>1. userctx \in [alg : BOOLEAN, sender : BOOLEAN, recipient : BOOLEAN]
    OBVIOUS
  <2>2. secctx \in BOOLEAN
    OBVIOUS
  <2> QED
    BY <2>1, <2>2 DEF CtxInv
<1>5. RespInv
  BY DEF RespInv
<1> QED
  BY <1>1, <1>2, <1>3, <1>4, <1>5 DEF IInv

-----------------------------------------------------------------------------
(***************************************************************************)
(* The switch                                                              *)
(***************************************************************************)

\* The position moves, and with it an edge starts: all that was read is old.
LEMMA FlipKeeps == SwitchInv /\ FlipSwitch => SwitchInv'
<1> SUFFICES ASSUME SwitchInv, FlipSwitch PROVE SwitchInv'
  OBVIOUS
<1> USE DEF SwitchInv, FlipSwitch
<1>1. switch' \in BOOLEAN
  OBVIOUS
<1>2. edge' = TRUE
  OBVIOUS
<1>3. overtaken' \in BOOLEAN
  OBVIOUS
<1>4. main' = "led" => overtaken'
  OBVIOUS
<1> QED
  BY <1>1, <1>2, <1>3, <1>4 DEF NoEdge, LedFollowsSwitch, SwitchAtRest

\* The interrupt: it posts before it reads, and no thread runs meanwhile.
LEMMA IsrKeeps ==
  SwitchInv /\ (EnterIsr \/ IsrPosts \/ IsrReads \/ IsrSetsLed) => SwitchInv'
<1> SUFFICES ASSUME SwitchInv, EnterIsr \/ IsrPosts \/ IsrReads \/ IsrSetsLed
             PROVE  SwitchInv'
  OBVIOUS
<1> USE DEF SwitchInv, NoEdge, LedFollowsSwitch, SwitchAtRest, Read, Forget, Thread
<1>1. CASE EnterIsr
  BY <1>1 DEF EnterIsr
<1>2. CASE IsrPosts
  BY <1>2 DEF IsrPosts
<1>3. CASE IsrReads
  BY <1>3 DEF IsrReads
<1>4. CASE IsrSetsLed
  BY <1>4 DEF IsrSetsLed
<1> QED
  BY <1>1, <1>2, <1>3, <1>4

\* The event thread reports what it read while no interrupt hit it.
LEMMA HandlerKeeps ==
  SwitchInv /\ (HandlerStarts \/ HandlerReads \/ HandlerPrints) => SwitchInv'
<1> SUFFICES ASSUME SwitchInv, HandlerStarts \/ HandlerReads \/ HandlerPrints
             PROVE  SwitchInv'
  OBVIOUS
<1> USE DEF SwitchInv, NoEdge, LedFollowsSwitch, SwitchAtRest, Read, Forget, Thread,
            ThreadsRun
<1>1. CASE HandlerStarts
  BY <1>1 DEF HandlerStarts
<1>2. CASE HandlerReads
  BY <1>2 DEF HandlerReads
<1>3. CASE HandlerPrints
  BY <1>3 DEF HandlerPrints
<1> QED
  BY <1>1, <1>2, <1>3

\* main sets the LED to what it read, which is old only if it was overtaken.
LEMMA MainKeeps == SwitchInv /\ (MainReads \/ MainSetsLed) => SwitchInv'
<1> SUFFICES ASSUME SwitchInv, MainReads \/ MainSetsLed PROVE SwitchInv'
  OBVIOUS
<1> USE DEF SwitchInv, NoEdge, LedFollowsSwitch, SwitchAtRest, Read, Forget, Thread,
            ThreadsRun, MainRuns
<1>1. CASE MainReads
  BY <1>1 DEF MainReads
<1>2. CASE MainSetsLed
  BY <1>2 DEF MainSetsLed
<1> QED
  BY <1>1, <1>2

LEMMA SwitchKeeps == IInv /\ Switch => IInv'
<1> SUFFICES ASSUME IInv, Switch PROVE IInv'
  OBVIOUS
<1>1. SwitchInv'
  BY FlipKeeps, IsrKeeps, HandlerKeeps, MainKeeps DEF IInv, Switch
<1>2. UNCHANGED shellVars
  BY DEF Switch, FlipSwitch, EnterIsr, IsrPosts, IsrReads, IsrSetsLed, HandlerStarts,
         HandlerReads, HandlerPrints, MainReads, MainSetsLed
<1>3. ShellInv'
  BY <1>2, SameShell DEF IInv, ShellInv
<1> QED
  BY <1>1, <1>3 DEF IInv, ShellInv

-----------------------------------------------------------------------------
(***************************************************************************)
(* The shell                                                               *)
(***************************************************************************)

\* A command about one topic leaves the invariants of the others alone.
LEMMA OtherTopics ==
  ASSUME ShellInv
  PROVE  /\ UNCHANGED <<topics, serverVars>> => ServerInv'
         /\ UNCHANGED credVars => CredsInv'
         /\ UNCHANGED ctxVars => CtxInv'
         /\ UNCHANGED respVars => RespInv'
<1>1. UNCHANGED <<topics, serverVars>> => ServerInv'
  BY DEF ShellInv, ServerInv, ServerUsable, serverVars
<1>2. UNCHANGED credVars => CredsInv'
  BY DEF ShellInv, CredsInv, Creds, Psks, Bufs, StartsWith, credVars
<1>3. UNCHANGED ctxVars => CtxInv'
  BY DEF ShellInv, CtxInv, ctxVars
<1>4. UNCHANGED respVars => RespInv'
  BY DEF ShellInv, RespInv, respVars
<1> QED
  BY <1>1, <1>2, <1>3, <1>4

\* server, uri and proxy: the port is set last.
LEMMA ServerKeeps == ShellInv /\ (_dns_server \/ _set_uri \/ _proxy) => ShellInv'
<1> SUFFICES ASSUME ShellInv, _dns_server \/ _set_uri \/ _proxy PROVE ShellInv'
  OBVIOUS
<1>1. UNCHANGED topics /\ UNCHANGED credVars /\ UNCHANGED ctxVars /\ UNCHANGED respVars
  BY DEF _dns_server, _set_uri, _proxy, ShellRuns
<1>2. ServerInv'
  <2>1. CASE _dns_server
    <3>1. PICK addr \in Addrs \cup {"none"}, port \in {"default", "given", "zero"} :
            ServerGiven(addr, port) /\ bad_addr' = (addr = "none")
      BY <2>1 DEF _dns_server
    <3>2. server \in [addr : Addrs \cup {"none"}, port : BOOLEAN, family : BOOLEAN]
      BY DEF ShellInv, ServerInv
    <3>3. server.port => server.family
      BY DEF ShellInv, ServerInv, ServerUsable
    <3>4. bad_addr' \in BOOLEAN /\ (addr = "none" => bad_addr')
      BY <3>1
    <3> DEFINE Usable == /\ server' \in [addr : Addrs \cup {"none"}, port : BOOLEAN,
                                        family : BOOLEAN]
                         /\ server'.port => server'.family
                         /\ server'.port => addr = "none" \/ server'.addr # "none"
    <3> SUFFICES Usable
      BY <1>1, <2>1, <3>1, <3>4 DEF _dns_server, ServerUsable, ShellInv, ServerInv
    <3>5. CASE addr = "none" /\ server' = server
      BY <3>2, <3>3, <3>5
    <3>6. CASE addr = "none" /\ server' = [server EXCEPT !.addr = "none"]
      BY <3>2, <3>3, <3>6
    <3>7. CASE /\ addr # "none"
               /\ server' = [server EXCEPT !.addr = addr, !.port = FALSE]
      BY <3>2, <3>7
    <3>8. CASE addr # "none" /\ server' = [addr |-> addr, port |-> TRUE, family |-> TRUE]
      BY <3>8
    <3> QED
      BY <3>1, <3>5, <3>6, <3>7, <3>8 DEF ServerGiven, BadAddress, GoodServer
  <2>2. CASE _set_uri
    BY <1>1, <2>2 DEF _set_uri, ShellInv, ServerInv, ServerUsable
  <2>3. CASE _proxy
    BY <1>1, <2>3 DEF _proxy, ShellInv, ServerInv, ServerUsable
  <2> QED
    BY <2>1, <2>2, <2>3
<1> QED
  BY <1>1, <1>2, OtherTopics DEF ShellInv

\* creds: whether the credential is taken or not, the buffer has the new PSK.
LEMMA CredsKeeps == ShellInv /\ (CredsAdd \/ CredsRemove) => ShellInv'
<1> SUFFICES ASSUME ShellInv, CredsAdd \/ CredsRemove PROVE ShellInv'
  OBVIOUS
<1>1. /\ UNCHANGED <<topics, serverVars>>
      /\ UNCHANGED ctxVars /\ UNCHANGED respVars
  BY DEF CredsAdd, CredsRemove, ShellRuns
<1>2. CredsInv'
  <2> USE DocClientAssumption DEF ShellInv, CredsInv
  <2>1. CASE CredsRemove
    <3>1. PICK t \in Tags : creds' = [creds EXCEPT ![t] = [h \in Half |-> 0]]
      BY <2>1 DEF CredsRemove
    <3>2. UNCHANGED <<strings, behind, added, copied>>
      BY <2>1 DEF CredsRemove
    <3>3. [h \in Half |-> 0] \in [Half -> 0..PskLen] /\ "psk" \in Half
      BY DEF Half
    <3>4. creds' \in [Tags -> [Half -> 0..PskLen]]
      BY <3>1, <3>3
    <3>5. \A u \in Tags : creds'[u]["psk"] > 0 => creds'[u] = creds[u]
      BY <3>1, <3>3
    <3> QED
      BY <3>2, <3>4, <3>5 DEF Creds, StartsWith, Bufs
  <2>2. CASE CredsAdd
    <3>1. PICK t \in Tags, c \in Creds :
            /\ strings' = CopyBoth(c) /\ copied' = c
            /\ \/ /\ creds[t]["psk"] = 0
                  /\ creds' = HandedOver(t, c)
                  /\ added' = [added EXCEPT ![t] = c]
               \/ creds' = creds /\ added' = added
      BY <2>2 DEF CredsAdd
    <3>2. /\ strings' \in Bufs
          /\ StartsWith(strings', "psk", c["psk"])
          /\ Len(c["psk"]) < PskLen => StartsWith(strings', "id", c["id"])
      BY <3>1, CopyBothCopies
    <3>3. \A h \in Half : c[h] \in Psks /\ Len(c[h]) \in 0..PskLen
      BY PskSeq DEF Creds
    <3>6. c \in [Half -> Psks \cup {<<>>}] /\ [h \in Half |-> Len(c[h])] \in [Half -> 0..PskLen]
      BY <3>3 DEF Creds
    <3>4. /\ creds' \in [Tags -> [Half -> 0..PskLen]]
          /\ added' \in [Tags -> [Half -> Psks \cup {<<>>}]]
      <4> DEFINE lens == [h \in Half |-> Len(c[h])]
      <4>1. lens \in [Half -> 0..PskLen]
        BY <3>6
      <4>2. \/ creds' = [creds EXCEPT ![t] = lens] /\ added' = [added EXCEPT ![t] = c]
            \/ creds' = creds /\ added' = added
        BY <3>1 DEF HandedOver
      <4> HIDE DEF lens
      <4>3. creds' \in [Tags -> [Half -> 0..PskLen]]
        BY <4>1, <4>2
      <4>4. added' \in [Tags -> [Half -> Psks \cup {<<>>}]]
        BY <3>6, <4>2
      <4> QED
        BY <4>3, <4>4
    <3>5. \A u \in Tags : creds'[u]["psk"] > 0 =>
            added'[u] \in Creds /\ \A h \in Half : creds'[u][h] = Len(added'[u][h])
      <4> SUFFICES ASSUME NEW u \in Tags, creds'[u]["psk"] > 0
                   PROVE  added'[u] \in Creds /\ \A h \in Half : creds'[u][h] = Len(added'[u][h])
        OBVIOUS
      <4>1. CASE creds' = creds /\ added' = added
        BY <4>1
      <4>2. CASE creds' = HandedOver(t, c) /\ added' = [added EXCEPT ![t] = c]
        <5>1. CASE u = t
          <6>1. added'[u] = c /\ creds'[u] = [h \in Half |-> Len(c[h])]
            BY <4>2, <5>1 DEF HandedOver
          <6> QED
            BY <6>1
        <5>2. CASE u # t
          <6>1. added'[u] = added[u] /\ creds'[u] = creds[u]
            BY <4>2, <5>2 DEF HandedOver
          <6> QED
            BY <6>1
        <5> QED
          BY <5>1, <5>2
      <4> QED
        BY <3>1, <4>1, <4>2
    <3>7. behind' = behind /\ copied' = c
      BY <2>2, <3>1 DEF CredsAdd
    <3> QED
      BY <3>2, <3>4, <3>5, <3>6, <3>7 DEF StartsWith
  <2> QED
    BY <2>1, <2>2
<1> QED
  BY <1>1, <1>2, OtherTopics DEF ShellInv

\* userctx: the algorithm starts over, and each ID counts after the one before.
LEMMA UserctxKeeps == ShellInv /\ _userctx => ShellInv'
<1> SUFFICES ASSUME ShellInv, _userctx PROVE ShellInv'
  OBVIOUS
<1>1. /\ UNCHANGED <<topics, serverVars>>
      /\ UNCHANGED credVars /\ UNCHANGED respVars
  BY DEF _userctx, UserctxInit, UserctxCommit, UserctxId, ShellRuns
<1>2. CtxInv'
  <2> USE DEF ShellInv, CtxInv
  <2>1. CASE UserctxInit
    <3>1. PICK alg \in BOOLEAN, ok \in BOOLEAN :
            /\ ok => alg
            /\ userctx' = [userctx EXCEPT !.alg = alg]
            /\ in_order' = IF ok THEN 1 ELSE 0
      BY <2>1 DEF UserctxInit
    <3>2. userctx' \in [alg : BOOLEAN, sender : BOOLEAN, recipient : BOOLEAN]
      BY <3>1
    <3>3. in_order' > 0 => userctx'.alg
      BY <3>1
    <3>4. in_order' \in 0..1
      BY <3>1
    <3> QED
      BY <2>1, <3>2, <3>3, <3>4 DEF UserctxInit
  <2>2. CASE UserctxCommit
    <3>1. secctx' \in BOOLEAN
      BY <2>2 DEF UserctxCommit
    <3> QED
      BY <2>2, <3>1 DEF UserctxCommit
  <2>3. CASE UserctxId("sender", 1)
    <3>1. PICK given \in BOOLEAN, ok \in BOOLEAN :
            /\ userctx' = IdGiven("sender", given)
            /\ in_order' = CASE in_order < 1 -> in_order
                             [] in_order >= 1 /\ ok /\ given -> 1 + 1
                             [] OTHER -> 1
      BY <2>3 DEF UserctxId
    <3>2. userctx' \in [alg : BOOLEAN, sender : BOOLEAN, recipient : BOOLEAN]
      BY <3>1 DEF IdGiven
    <3>3. userctx'.alg /\ userctx'.sender = given
      BY <2>3, <3>1 DEF UserctxId, IdGiven
    <3>4. in_order' \in 0..2 /\ (in_order' > 1 => given)
      BY <3>1
    <3> QED
      BY <2>3, <3>2, <3>3, <3>4 DEF UserctxId
  <2>4. CASE UserctxId("recipient", 2)
    <3>1. PICK given \in BOOLEAN, ok \in BOOLEAN :
            /\ userctx' = IdGiven("recipient", given)
            /\ in_order' = CASE in_order < 2 -> in_order
                             [] in_order >= 2 /\ ok /\ given -> 2 + 1
                             [] OTHER -> 2
      BY <2>4 DEF UserctxId
    <3>2. userctx' \in [alg : BOOLEAN, sender : BOOLEAN, recipient : BOOLEAN]
      BY <3>1 DEF IdGiven
    <3>3. /\ userctx'.alg /\ userctx'.sender = userctx.sender
          /\ userctx'.recipient = given
      BY <2>4, <3>1 DEF UserctxId, IdGiven
    <3>4. in_order' \in 0..3 /\ (in_order' > 2 => given) /\ (in_order' > 1 => in_order > 1)
      <4>1. CASE in_order < 2
        <5>1. in_order' = in_order
          BY <3>1, <4>1
        <5> QED
          BY <4>1, <5>1
      <4>2. CASE ~(in_order < 2) /\ ok /\ given
        BY <3>1, <4>2
      <4>3. CASE ~(in_order < 2) /\ ~(ok /\ given)
        <5>1. in_order' = 2
          BY <3>1, <4>3
        <5> QED
          BY <4>3, <5>1
      <4> QED
        BY <4>1, <4>2, <4>3
    <3> QED
      BY <2>4, <3>2, <3>3, <3>4 DEF UserctxId
  <2> QED
    BY <2>1, <2>2, <2>3, <2>4 DEF _userctx
<1> QED
  BY <1>1, <1>2, OtherTopics DEF ShellInv

\* resp: a piece that is refused is written behind what counts.
LEMMA RespKeeps == ShellInv /\ (RespContinue \/ RespSet) => ShellInv'
<1> SUFFICES ASSUME ShellInv, RespContinue \/ RespSet PROVE ShellInv'
  OBVIOUS
<1>1. /\ UNCHANGED <<topics, serverVars>>
      /\ UNCHANGED credVars /\ UNCHANGED ctxVars
  BY DEF RespContinue, RespSet, ShellRuns
<1>2. RespInv'
  <2>1. RespInv
    BY DEF ShellInv
  <2>2. PICK p \in Pieces :
          \/ Copied(mock_len, p) /\ said' = said \o p
          \/ NotCopied(mock_len, p) /\ UNCHANGED said
          \/ Copied(0, p) /\ said' = p
          \/ NotCopied(0, p) /\ said' = <<>>
    BY DEF RespContinue, RespSet
  <2>3. mock_len \in 0..MsgLen - 1 /\ 0 \in 0..MsgLen - 1 /\ MsgLen \in Nat
    BY <2>1, DocClientAssumption DEF RespInv
  <2>4. p \in Seq(Bytes) /\ Len(p) \in Nat
    BY PieceSeq
  <2>5. CASE Copied(mock_len, p) /\ said' = said \o p
    <3> DEFINE q == said \o p
    <3>1. /\ mock' \in [1..MsgLen -> Bytes \cup {0}]
          /\ \A i \in 1..mock_len : mock'[i] = mock[i]
          /\ \A i \in 1..Len(p) : mock'[mock_len + i] = p[i]
      BY <2>1, <2>3, <2>5, WrittenWrites DEF Copied
    <3>2. /\ q \in Seq(Bytes) /\ Len(q) = mock_len + Len(p)
          /\ \A i \in 1..mock_len + Len(p) :
               q[i] = IF i <= mock_len THEN said[i] ELSE p[i - mock_len]
      BY <2>1, <2>4, ConcatProperties DEF RespInv
    <3> HIDE DEF q
    <3>3. \A i \in 1..mock_len + Len(p) : mock'[i] = q[i]
      <4> SUFFICES ASSUME NEW i \in 1..mock_len + Len(p) PROVE mock'[i] = q[i]
        OBVIOUS
      <4>1. CASE i <= mock_len
        BY <2>1, <2>3, <3>1, <3>2, <4>1 DEF RespInv
      <4>2. CASE ~(i <= mock_len)
        <5> DEFINE j == i - mock_len
        <5>1. j \in 1..Len(p) /\ mock_len + j = i
          BY <2>3, <2>4, <4>2
        <5>2. mock'[mock_len + j] = p[j]
          BY <3>1, <5>1
        <5> QED
          BY <3>2, <4>2, <5>1, <5>2
      <4> QED
        BY <4>1, <4>2
    <3>4. mock_len' = mock_len + Len(p) /\ mock_len' \in 0..MsgLen - 1
      BY <2>3, <2>4, <2>5 DEF Copied, Fits
    <3> QED
      BY <2>5, <3>1, <3>2, <3>3, <3>4 DEF RespInv, q
  <2>6. CASE NotCopied(mock_len, p) /\ UNCHANGED said
    <3>1. /\ mock' \in [1..MsgLen -> Bytes \cup {0}]
          /\ \A i \in 1..mock_len : mock'[i] = mock[i]
      BY <2>1, <2>3, <2>6, WrittenWrites DEF NotCopied, RespInv
    <3> QED
      BY <2>1, <2>6, <3>1 DEF NotCopied, RespInv
  <2>7. CASE Copied(0, p) /\ said' = p
    <3>1. /\ mock' \in [1..MsgLen -> Bytes \cup {0}]
          /\ \A i \in 1..Len(p) : mock'[0 + i] = p[i]
      BY <2>1, <2>3, <2>7, WrittenWrites DEF Copied
    <3>2. mock_len' = Len(p) /\ mock_len' \in 0..MsgLen - 1
      BY <2>3, <2>4, <2>7 DEF Copied, Fits
    <3> QED
      BY <2>4, <2>7, <3>1, <3>2 DEF RespInv
  <2>8. CASE NotCopied(0, p) /\ said' = <<>>
    <3>1. mock' \in [1..MsgLen -> Bytes \cup {0}]
      BY <2>1, <2>3, <2>8, WrittenWrites DEF NotCopied, RespInv
    <3> QED
      BY <2>3, <2>8, <3>1 DEF NotCopied, RespInv
  <2> QED
    BY <2>2, <2>5, <2>6, <2>7, <2>8
<1> QED
  BY <1>1, <1>2, OtherTopics DEF ShellInv

LEMMA ShellKeeps == IInv /\ Shell => IInv'
<1> SUFFICES ASSUME IInv, Shell PROVE IInv'
  OBVIOUS
<1>1. ShellInv'
  BY ServerKeeps, CredsKeeps, UserctxKeeps, RespKeeps DEF IInv, ShellInv, Shell
<1>2. UNCHANGED switchVars
  BY DEF Shell, _dns_server, _set_uri, _proxy, CredsAdd, CredsRemove, _userctx,
         UserctxInit, UserctxCommit, UserctxId, RespContinue, RespSet, ShellRuns
<1>3. SwitchInv'
  BY <1>2, SameSwitch DEF IInv
<1> QED
  BY <1>1, <1>3 DEF IInv, ShellInv

-----------------------------------------------------------------------------
(***************************************************************************)
(* Theorems                                                                *)
(***************************************************************************)

\* The inductive invariant holds in every reachable state.
THEOREM Invariance == Spec => []IInv
<1>1. Init => IInv
  BY InitIInv
<1>2. IInv /\ [Next]_vars => IInv'
  <2>1. IInv /\ UNCHANGED vars => IInv'
    BY SameShell, SameSwitch DEF IInv, ShellInv, vars
  <2> QED
    BY <2>1, SwitchKeeps, ShellKeeps DEF Next
<1> QED
  BY <1>1, <1>2, PTL DEF Spec

\* The event thread's last report is where the switch comes to rest: its
\* interrupt posts the event after it has moved, and the handler reads anew.
THEOREM RestIsReported == Spec => []SwitchReported
<1>1. IInv => SwitchReported
  BY DEF IInv, SwitchInv, NoEdge, SwitchReported, SwitchAtRest
<1> QED
  BY <1>1, Invariance, PTL

\* The LED shows it, unless the interrupt came between main's read of the pin
\* and its write of the LED.
THEOREM LedShowsRest == Spec => []LedFollowsSwitch
<1>1. IInv => LedFollowsSwitch
  BY DEF IInv, SwitchInv
<1> QED
  BY <1>1, Invariance, PTL

\* A server that sock_dns takes for configured is complete, unless the last server
\* command had a bad address.
THEOREM ServerAlwaysUsable == Spec => []ServerUsable
<1>1. IInv => ServerUsable
  BY DEF IInv, ServerInv
<1> QED
  BY <1>1, Invariance, PTL

\* What is read of a buffer that starts with a string, as long as the string.
LEMMA ReadBack ==
  ASSUME NEW buf, NEW s \in Psks, \A i \in 1..Len(s) : buf[i] = s[i]
  PROVE  SubSeq(buf, 1, Len(s)) = s
<1> DEFINE n == Len(s)
           b == SubSeq(buf, 1, n)
<1>1. n \in Int /\ n > 0 /\ s \in Seq(Chars)
  BY PskSeq
<1>2. \A i \in 1..n : buf[i] = s[i] /\ s[i] \in Chars
  BY PskSeq
<1> HIDE DEF n
<1>3. /\ b \in Seq(Chars) /\ Len(b) = (IF 1 <= n THEN n - 1 + 1 ELSE 0)
      /\ \A i \in 1..(n - 1 + 1) : b[i] = buf[1 + i - 1]
  BY <1>1, <1>2, SubSeqProperties
<1>4. Len(b) = n /\ \A i \in 1..n : b[i] = buf[i]
  BY <1>1, <1>3
<1> HIDE DEF b
<1>5. Len(b) = Len(s) /\ \A i \in 1..Len(b) : b[i] = s[i]
  BY <1>2, <1>4 DEF n
<1>6. b = s
  BY <1>1, <1>3, <1>5, SeqEqual
<1> QED
  BY <1>6 DEF b, n

\* A credential is what was given with its tag until the next creds command, for
\* all of them share the buffers; of its ID that is so if the PSK does not fill
\* its own.
THEOREM CredentialKept == Spec => []CredentialUntilNext
<1>1. IInv => CredentialUntilNext
  <2> SUFFICES ASSUME CredsInv, NEW t \in Tags, creds[t]["psk"] > 0, added[t] = copied
               PROVE  /\ Handed(t, "psk") = copied["psk"]
                      /\ Len(copied["psk"]) < PskLen => Handed(t, "id") = copied["id"]
    BY DEF IInv, CredentialUntilNext
  <2>1. copied \in Creds /\ \A h \in Half : creds[t][h] = Len(copied[h])
    BY DEF CredsInv
  <2>2. copied["id"] \in Psks /\ copied["psk"] \in Psks
        /\ creds[t]["id"] = Len(copied["id"]) /\ creds[t]["psk"] = Len(copied["psk"])
    BY <2>1 DEF Creds, Half
  <2>3. \A i \in 1..Len(copied["psk"]) : strings["psk"][i] = copied["psk"][i]
    BY <2>1 DEF CredsInv, StartsWith
  <2>4. Handed(t, "psk") = copied["psk"]
    BY <2>2, <2>3, ReadBack DEF Handed
  <2>5. ASSUME Len(copied["psk"]) < PskLen PROVE Handed(t, "id") = copied["id"]
    <3>1. \A i \in 1..Len(copied["id"]) : strings["id"][i] = copied["id"][i]
      BY <2>1, <2>5 DEF CredsInv, StartsWith
    <3> QED
      BY <2>2, <3>1, ReadBack DEF Handed
  <2> QED
    BY <2>4, <2>5
<1> QED
  BY <1>1, Invariance, PTL

\* The order of the usage of userctx leads to a context that is complete,
\* whatever was given or refused before.
THEOREM UsageAlwaysSuffices == Spec => []UsageSuffices
<1>1. IInv => UsageSuffices
  BY DEF IInv, CtxInv, UsageSuffices, Committable
<1> QED
  BY <1>1, Invariance, PTL

\* The response resp shows is what was said to it and accepted.
THEOREM MockIsSaid == Spec => []MockIsWhatWasSaid
<1>1. IInv => MockIsWhatWasSaid
  <2> SUFFICES ASSUME IInv PROVE MockIsWhatWasSaid
    OBVIOUS
  <2>1. TypeOK
    BY DEF IInv, SwitchInv, ServerInv, CredsInv, CtxInv, RespInv, TypeOK, Bufs
  <2> DEFINE n == mock_len
             m == SubSeq(mock, 1, n)
  <2>2. /\ n \in Nat /\ said \in Seq(Bytes) /\ Len(said) = n
        /\ \A i \in 1..n : mock[i] = said[i]
    BY DocClientAssumption DEF IInv, RespInv
  <2>3. \A i \in 1..n : mock[i] \in Bytes
    BY <2>2, ElementOfSeq
  <2> HIDE DEF n
  <2>4. /\ m \in Seq(Bytes) /\ Len(m) = (IF 1 <= n THEN n - 1 + 1 ELSE 0)
        /\ \A i \in 1..(n - 1 + 1) : m[i] = mock[1 + i - 1]
    BY <2>2, <2>3, SubSeqProperties
  <2>5. Len(m) = Len(said) /\ \A i \in 1..Len(m) : m[i] = said[i]
    BY <2>2, <2>4
  <2> HIDE DEF m
  <2>6. m = said
    BY <2>2, <2>4, <2>5, SeqEqual
  <2> QED
    BY <2>1, <2>6 DEF MockIsWhatWasSaid, m, n
<1> QED
  BY <1>1, Invariance, PTL

=============================================================================
