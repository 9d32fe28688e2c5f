----------------------------- MODULE DocClient ------------------------------
(***************************************************************************)
(* The DNS over CoAP client of lndw22_doc/client/main.c: a switch with an  *)
(* LED, reported by an interrupt through an event thread, and the shell    *)
(* commands that change what the client keeps: server, uri, proxy, creds,  *)
(* userctx and resp.  The interrupt preempts every thread, and the event   *)
(* thread preempts main and its shell.  A command that fails half-way      *)
(* keeps what it has already written; the commands come in any order.      *)
(***************************************************************************)
EXTENDS Integers, Sequences

CONSTANTS Addrs,            \* addresses of DNS servers
          Bytes,            \* byte values of a response
          MsgLen,           \* CONFIG_DNS_MSG_LEN
          MaxPiece,         \* bound on the bytes given in one resp command
          Tags, Chars,      \* tags of credentials, characters of an ID or PSK
          PskLen,           \* PSK_ID_LEN and PSK_LEN
          Sessions          \* the sets of topics one behaviour's commands are about

ASSUME DocClientAssumption ==
  /\ MsgLen \in Nat \ {0} /\ MaxPiece \in Nat
  /\ "none" \notin Addrs /\ "0" \notin Chars
  /\ PskLen \in Nat \ {0}
  /\ \A t \in Sessions : t \subseteq {"server", "creds", "userctx", "resp"}

VARIABLES
  \* The switch:
  switch,           \* position of SWITCH_GPIO: TRUE is on
  edge,             \* an edge of SWITCH_GPIO waits for the interrupt
  isr,              \* step the interrupt is at: "idle", "post", "read" or "led"
  seen,             \* position read by the interrupt, the event thread, main
  led,              \* LED0 is lit
  queued,           \* _check_switch_event is in the queue
  handler,          \* step the event thread is at: "idle", "read" or "print"
  reported,         \* position the event thread printed last
  main,             \* step main is at: "read", "led" or "shell"
  overtaken,        \* the switch moved while main was about to set the LED
  \* The commands:
  topics,           \* what the commands of this behaviour are about
  server,           \* sock_dns_server: its address, or "none" for :: and what else
                    \* was never given, whether it has a port, family
  bad_addr,         \* history: the server command before had a bad address
  uri, proxy,       \* gcoap_dns has a server's URI, a proxy's
  strings,          \* _psk_id and _psk: two buffers for all credentials
  behind,           \* the one that directly follows the other in memory, or "none"
  creds,            \* credentials of gcoap_dns: by tag the lengths of an ID and a PSK
  added, copied,    \* history: what the credentials were added with, what was
                    \* copied last
  userctx,          \* the algorithm is set, the lengths of the IDs are not zero
  in_order,         \* history: how many of -i, -s, -r succeeded in that order,
                    \* the latter two with an ID that is not empty
  secctx,           \* gcoap_dns has a context
  mock,             \* _mock_response, all of it
  mock_len,         \* _mock_response_len
  said              \* history: what the resp commands that succeeded said

switchVars == <<switch, edge, isr, seen, led, queued, handler, reported, main,
                overtaken>>
ctxVars == <<userctx, in_order, secctx>>
respVars == <<mock, mock_len, said>>
serverVars == <<server, bad_addr, uri, proxy>>
credVars == <<strings, behind, creds, added, copied>>
shellVars == <<topics, serverVars, credVars, ctxVars, respVars>>
vars == <<switchVars, shellVars>>

Thread == {"isr", "event", "main"}
Half == {"id", "psk"}

Init ==
  /\ switch \in BOOLEAN
  /\ edge = FALSE /\ isr = "idle" /\ queued = FALSE /\ handler = "idle"
  /\ seen = [t \in Thread |-> FALSE]
  /\ led \in BOOLEAN
  /\ reported = switch
  /\ main = "read" /\ overtaken = FALSE
  /\ server = [addr |-> "none", port |-> FALSE, family |-> FALSE]
  /\ bad_addr = FALSE
  /\ topics \in Sessions /\ uri = FALSE /\ proxy = FALSE
  /\ strings = [h \in Half |-> [i \in 1..PskLen |-> "0"]]
  /\ behind \in Half \cup {"none"}
  /\ creds = [t \in Tags |-> [h \in Half |-> 0]]
  /\ added = [t \in Tags |-> [h \in Half |-> <<>>]]
  /\ copied = [h \in Half |-> <<>>]
  /\ userctx = [alg |-> FALSE, sender |-> FALSE, recipient |-> FALSE]
  /\ in_order = 0 /\ secctx = FALSE
  /\ mock = [i \in 1..MsgLen |-> 0] /\ mock_len = 0 /\ said = <<>>

(***************************************************************************)
(* The switch                                                              *)
(***************************************************************************)

ThreadsRun == isr = "idle" /\ ~edge
MainRuns == ThreadsRun /\ handler = "idle" /\ ~queued

Read(t) == seen' = [seen EXCEPT ![t] = switch]
Forget(t) == seen' = [seen EXCEPT ![t] = FALSE]     \* the thread is done with it

FlipSwitch ==
  /\ switch' = ~switch
  /\ edge' = TRUE
  /\ overtaken' = (overtaken \/ main = "led")
  /\ UNCHANGED <<isr, seen, led, queued, handler, reported, main, shellVars>>

\* _gpio_irq.  An event that is queued already is not queued again.
EnterIsr ==
  /\ isr = "idle" /\ edge
  /\ edge' = FALSE
  /\ isr' = "post"
  /\ UNCHANGED <<switch, seen, led, queued, handler, reported, main, overtaken,
                 shellVars>>

IsrPosts ==
  /\ isr = "post"
  /\ queued' = TRUE
  /\ isr' = "read"
  /\ UNCHANGED <<switch, edge, seen, led, handler, reported, main, overtaken,
                 shellVars>>

IsrReads ==
  /\ isr = "read"
  /\ Read("isr")
  /\ isr' = "led"
  /\ UNCHANGED <<switch, edge, led, queued, handler, reported, main, overtaken,
                 shellVars>>

\* Mutant: every interrupt toggles the LED.
TogglesLed ==
  /\ isr = "led"
  /\ led' = ~led
  /\ isr' = "idle"
  /\ overtaken' = (overtaken /\ main = "led")
  /\ UNCHANGED <<switch, edge, seen, queued, handler, reported, main, shellVars>>

\* The interrupt has the last word once main has set the LED.
IsrSetsLed ==
  /\ isr = "led"
  /\ led' = seen["isr"] /\ Forget("isr")
  /\ isr' = "idle"
  /\ overtaken' = (overtaken /\ main = "led")
  /\ UNCHANGED <<switch, edge, queued, handler, reported, main, shellVars>>

\* _check_switch_event_handler.  The event leaves the queue before its handler
\* runs.
HandlerStarts ==
  /\ ThreadsRun /\ handler = "idle" /\ queued
  /\ queued' = FALSE
  /\ handler' = "read"
  /\ UNCHANGED <<switch, edge, isr, seen, led, reported, main, overtaken,
                 shellVars>>

HandlerReads ==
  /\ ThreadsRun /\ handler = "read"
  /\ Read("event")
  /\ handler' = "print"
  /\ UNCHANGED <<switch, edge, isr, led, queued, reported, main, overtaken,
                 shellVars>>

\* Mutant: the queue is cleared when the handler is done.
ClearsQueue ==
  /\ ThreadsRun /\ handler = "print"
  /\ reported' = seen["event"] /\ Forget("event")
  /\ handler' = "idle"
  /\ queued' = FALSE
  /\ UNCHANGED <<switch, edge, isr, led, main, overtaken, shellVars>>

HandlerPrints ==
  /\ ThreadsRun /\ handler = "print"
  /\ reported' = seen["event"] /\ Forget("event")
  /\ handler' = "idle"
  /\ UNCHANGED <<switch, edge, isr, led, queued, main, overtaken,
                 shellVars>>

\* main sets the LED once, with the interrupt already enabled.
MainReads ==
  /\ MainRuns /\ main = "read"
  /\ Read("main")
  /\ main' = "led"
  /\ UNCHANGED <<switch, edge, isr, led, queued, handler, reported, overtaken,
                 shellVars>>

MainSetsLed ==
  /\ MainRuns /\ main = "led"
  /\ led' = seen["main"] /\ Forget("main")
  /\ main' = "shell"
  /\ UNCHANGED <<switch, edge, isr, queued, handler, reported, overtaken,
                 shellVars>>

(***************************************************************************)
(* The shell                                                               *)
(***************************************************************************)

\* A command about `topic` comes.  Topics share no variables.
ShellRuns(topic) ==
  /\ MainRuns /\ main = "shell" /\ topic \in topics
  /\ UNCHANGED <<switchVars, topics>>

\* server <addr> [<port>]: both are parsed straight into sock_dns_server.  A bad
\* address may leave the old one, or clear it.
BadAddress == server' \in {server, [server EXCEPT !.addr = "none"]}
GoodServer(addr) == server' = [addr |-> addr, port |-> TRUE, family |-> TRUE]

\* Mutant: the port is parsed before the address.
PortFirst(addr, port) ==
  \/ port = "zero" /\ server' = [server EXCEPT !.port = FALSE]
  \/ addr = "none" /\ port = "given" /\ server' = [server EXCEPT !.port = TRUE]
  \/ addr = "none" /\ port = "default" /\ BadAddress
  \/ addr # "none" /\ port # "zero" /\ GoodServer(addr)

\* The address comes first; port 0 is refused, with the address already taken.
ServerGiven(addr, port) ==
  \/ addr = "none" /\ BadAddress
  \/ /\ addr # "none" /\ port = "zero"
     /\ server' = [server EXCEPT !.addr = addr, !.port = FALSE]
  \/ addr # "none" /\ port # "zero" /\ GoodServer(addr)

_dns_server ==
  /\ ShellRuns("server")
  /\ \E addr \in Addrs \cup {"none"}, port \in {"default", "given", "zero"} :
       /\ ServerGiven(addr, port)
       /\ bad_addr' = (addr = "none")
  /\ UNCHANGED <<uri, proxy, credVars, ctxVars, respVars>>

\* uri -d and proxy - reset; gcoap_dns may refuse a URI and keep the old one.
_set_uri ==
  /\ ShellRuns("server")
  /\ uri' \in {uri, TRUE, FALSE}
  /\ UNCHANGED <<server, bad_addr, proxy, credVars, ctxVars, respVars>>

_proxy ==
  /\ ShellRuns("server")
  /\ proxy' \in {proxy, TRUE, FALSE}
  /\ UNCHANGED <<server, bad_addr, uri, credVars, ctxVars, respVars>>

CredsRemove ==
  /\ ShellRuns("creds")
  /\ \E t \in Tags : creds' = [creds EXCEPT ![t] = [h \in Half |-> 0]]
  /\ UNCHANGED <<strings, behind, added, copied, serverVars, ctxVars, respVars>>

\* strcpy of a string and its end, which is behind the buffer if the string is as
\* long as it: that may be the begin of the other buffer.
Psks == UNION {[1..n -> Chars] : n \in 1..PskLen}
Creds == [Half -> Psks]
Terminated(buf, s) ==
  [i \in 1..PskLen |-> CASE i <= Len(s) -> s[i]
                         [] i = Len(s) + 1 -> "0"
                         [] OTHER -> buf[i]]
StrCpy(bufs, h, s) ==
  [g \in Half |-> CASE g = h -> Terminated(bufs[g], s)
                    [] g # h /\ g = behind /\ Len(s) = PskLen ->
                         [bufs[g] EXCEPT ![1] = "0"]
                    [] OTHER -> bufs[g]]

\* Mutant: the PSK is copied before its ID.
PskFirst(c) == StrCpy(StrCpy(strings, "psk", c["psk"]), "id", c["id"])
CopyBoth(c) == StrCpy(StrCpy(strings, "id", c["id"]), "psk", c["psk"])

\* The credential handed over points to the buffers; its lengths are copied.
HandedOver(t, c) == [creds EXCEPT ![t] = [h \in Half |-> Len(c[h])]]

\* creds <tag> <id> <psk>: copied, then handed to gcoap_dns, which refuses a
\* tag it has, or one too many.  What is longer than its buffer is refused before
\* that.
CredsAdd ==
  /\ ShellRuns("creds")
  /\ \E t \in Tags, c \in Creds :
       /\ strings' = CopyBoth(c) /\ copied' = c
       /\ \/ /\ creds[t]["psk"] = 0
             /\ creds' = HandedOver(t, c)
             /\ added' = [added EXCEPT ![t] = c]
          \/ UNCHANGED <<creds, added>>
  /\ UNCHANGED <<behind, serverVars, ctxVars, respVars>>

\* userctx -i: a number that does not parse to its end may still be set, and
\* the algorithm 0 counts as none.
UserctxInit ==
  /\ ShellRuns("userctx")
  /\ \E alg, ok \in BOOLEAN :
       /\ ok => alg
       /\ userctx' = [userctx EXCEPT !.alg = alg]
       /\ in_order' = IF ok THEN 1 ELSE 0
  /\ UNCHANGED <<serverVars, credVars, secctx, respVars>>

\* Mutant: -r is a copy of -s.
CopyPasted(side, given) == [userctx EXCEPT !.sender = given]
IdGiven(side, given) == [userctx EXCEPT ![side] = given]

\* userctx -s and -r: the length of the ID is set before anything is checked.
UserctxId(side, nth) ==
  /\ ShellRuns("userctx")
  /\ userctx.alg
  /\ \E given, ok \in BOOLEAN :
       /\ userctx' = IdGiven(side, given)
       /\ in_order' = CASE in_order < nth -> in_order
                        [] in_order >= nth /\ ok /\ given -> nth + 1
                        [] OTHER -> nth
  /\ UNCHANGED <<serverVars, credVars, secctx, respVars>>

\* userctx -c.  gcoap_dns_oscore_set_secctx may still refuse the context.
Committable == userctx.alg /\ userctx.sender /\ userctx.recipient
UserctxCommit ==
  /\ ShellRuns("userctx")
  /\ Committable
  /\ secctx' \in {secctx, TRUE}
  /\ UNCHANGED <<serverVars, credVars, userctx, in_order, respVars>>

_userctx == \/ UserctxInit \/ UserctxCommit
            \/ UserctxId("sender", 1) \/ UserctxId("recipient", 2)

\* _parse_hex writes byte after byte and stops where a digit is wrong.
Pieces == UNION {[1..n -> Bytes] : n \in 0..MaxPiece}
Written(start, piece) ==
  [i \in 1..MsgLen |-> IF i \in start + 1..start + Len(piece)
                       THEN piece[i - start] ELSE mock[i]]
\* Mutant: the response may fill the buffer.
FitsExactly(start, piece) == start + Len(piece) <= MsgLen
Fits(start, piece) == start + Len(piece) < MsgLen

Copied(start, piece) ==
  /\ Fits(start, piece)
  /\ mock' = Written(start, piece)
  /\ mock_len' = start + Len(piece)

\* Mutant: the length is set before the piece is parsed.
LengthFirst(start, piece) ==
  /\ mock_len' = IF Fits(start, piece) THEN start + Len(piece) ELSE start
  /\ UNCHANGED mock

\* Refused: too long, or the bytes before the wrong digit are written.
NotCopied(start, piece) ==
  /\ mock_len' = start
  /\ mock' = IF Fits(start, piece) THEN Written(start, piece) ELSE mock

\* resp -c <hex>
RespContinue ==
  /\ ShellRuns("resp")
  /\ \E piece \in Pieces :
       \/ Copied(mock_len, piece) /\ said' = said \o piece
       \/ NotCopied(mock_len, piece) /\ UNCHANGED said
  /\ UNCHANGED <<serverVars, credVars, ctxVars>>

\* resp <code> [<hex>]
RespSet ==
  /\ ShellRuns("resp")
  /\ \E piece \in Pieces :
       \/ Copied(0, piece) /\ said' = piece
       \/ NotCopied(0, piece) /\ said' = <<>>
  /\ UNCHANGED <<serverVars, credVars, ctxVars>>

Switch == \/ FlipSwitch \/ EnterIsr \/ IsrPosts \/ IsrReads \/ IsrSetsLed
          \/ HandlerStarts \/ HandlerReads \/ HandlerPrints
          \/ MainReads \/ MainSetsLed

Shell == \/ _dns_server \/ _set_uri \/ _proxy \/ CredsAdd \/ CredsRemove
         \/ _userctx \/ RespContinue \/ RespSet

Next == Switch \/ Shell

Spec == Init /\ [][Next]_vars

-----------------------------------------------------------------------------
(***************************************************************************)
(* Properties                                                              *)
(***************************************************************************)

TypeOK ==
  /\ switch \in BOOLEAN /\ edge \in BOOLEAN /\ queued \in BOOLEAN
  /\ led \in BOOLEAN /\ reported \in BOOLEAN /\ overtaken \in BOOLEAN
  /\ isr \in {"idle", "post", "read", "led"}
  /\ handler \in {"idle", "read", "print"}
  /\ main \in {"read", "led", "shell"}
  /\ seen \in [Thread -> BOOLEAN]
  /\ topics \in Sessions /\ uri \in BOOLEAN /\ proxy \in BOOLEAN /\ bad_addr \in BOOLEAN
  /\ server \in [addr : Addrs \cup {"none"}, port : BOOLEAN, family : BOOLEAN]
  /\ strings \in [Half -> [1..PskLen -> Chars \cup {"0"}]]
  /\ behind \in Half \cup {"none"}
  /\ creds \in [Tags -> [Half -> 0..PskLen]]
  /\ copied \in [Half -> Psks \cup {<<>>}]
  /\ added \in [Tags -> [Half -> Psks \cup {<<>>}]]
  /\ userctx \in [alg : BOOLEAN, sender : BOOLEAN, recipient : BOOLEAN]
  /\ in_order \in 0..3 /\ secctx \in BOOLEAN
  /\ mock \in [1..MsgLen -> Bytes \cup {0}]
  /\ mock_len \in 0..MsgLen - 1

SwitchAtRest == ~edge /\ isr = "idle"

\* However fast the switch moves, and whenever its interrupt hits the event
\* thread, the position printed last by the event thread is the position the
\* switch comes to rest in.
SwitchReported ==
  SwitchAtRest /\ ~queued /\ handler = "idle" => reported = switch

\* The LED shows the position the switch comes to rest in, unless the switch
\* moved between main's reading it and setting the LED.
LedFollowsSwitch ==
  SwitchAtRest /\ main = "shell" /\ ~overtaken => led = switch

\* A server with a port, which sock_dns takes for a configured one, has a family,
\* and an address unless the last server command had a bad one; a bad port never
\* leaves a configured server without address.
ServerUsable ==
  server.port => server.family /\ (server.addr # "none" \/ bad_addr)

\* A credential that gcoap_dns has is the one that was given with its tag, until
\* another creds command is accepted or refused, for all of them share the
\* buffers: the PSK always, as it is copied last, and the ID unless the PSK fills
\* its buffer, for then its end may be written over the begin of the ID.
Handed(t, h) == SubSeq(strings[h], 1, creds[t][h])
CredentialUntilNext ==
  \A t \in Tags :
    creds[t]["psk"] > 0 /\ added[t] = copied =>
      /\ Handed(t, "psk") = added[t]["psk"]
      /\ Len(added[t]["psk"]) < PskLen => Handed(t, "id") = added[t]["id"]

\* Whoever gives the parts of a context in the order of the usage, each accepted,
\* has it accepted by -c, whatever was given, refused or left half set before.
UsageSuffices == in_order = 3 => Committable

\* The response shown is made up of the pieces that were accepted since it was
\* set, whatever the commands refused in between had written behind it, and
\* never fills its buffer.
MockIsWhatWasSaid == TypeOK /\ SubSeq(mock, 1, mock_len) = said

=============================================================================
