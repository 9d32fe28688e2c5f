----------------------------- MODULE ButtonNode -----------------------------
(***************************************************************************)
(* The whole button node: the controller of lndw18_luke/controller/main.c, *)
(* the posting of points and the target of lndw18_luke/common/common.c,    *)
(* and the reboot both offer.  Where Controller leaves the outcome of a    *)
(* post open, this module runs post_points_to_target step by step, with    *)
(* button presses, timers and target requests between any two steps.       *)
(***************************************************************************)
EXTENDS Controller, PostPoints

VARIABLES reboot_timer,     \* _reboot_timer is armed
          rejected          \* history: points of posts that returned 0

nodeVars == <<vars, targetVars, postVars, clockVars, reboot_timer, rejected>>
commonVars == <<targetVars, postVars, clockVars, reboot_timer, rejected>>

NodeInit == Init /\ PostInit /\ reboot_timer = FALSE /\ rejected = 0

\* The call: control moves from _client into post_points_to_target.
CallPost ==
  /\ pc = "post"
  /\ CallPostPoints
  /\ UNCHANGED <<vars, reboot_timer, rejected>>

\* Mutant: points of a refused post are put back and still given up.
PutPointsBack ==
  /\ PostRefused \/ SendRequest(FALSE)
  /\ pc = "post" /\ pc' = "recv"
  /\ counter' = counter + points /\ points' = 0
  /\ rejected' = rejected + points
  /\ UNCHANGED <<sends_remaining, irq, debounce_timer, send_timer, msg_q,
                 pressed, offered, posted, since, reboot_timer>>

\* The three ways back into _client.
PostReturnsZero ==
  /\ PostRefused \/ SendRequest(FALSE)
  /\ PostPoints(FALSE)
  /\ rejected' = rejected + points
  /\ UNCHANGED reboot_timer

PostReturnsLen ==
  /\ SendRequest(TRUE)
  /\ PostPoints(TRUE)
  /\ UNCHANGED <<reboot_timer, rejected>>

PostGoesOn ==
  /\ AddrChecked \/ PostChecked \/ InitRequest
  /\ UNCHANGED <<vars, reboot_timer, rejected>>

\* Everything else the controller does.
ControllerStep ==
  /\ \/ Interrupts \/ InitButton \/ RegisterListener \/ EnterClient
     \/ ReceiveMsg \/ TakeCounter \/ CountSend \/ ScheduleSend
  /\ UNCHANGED commonVars

\* Requests are served once main has registered the listener, while it still
\* registers the node at the resource directory too.
GcoapStep ==
  /\ pc \notin {"init", "boot"}
  /\ \/ luke_set_target /\ UNCHANGED reboot_timer
     \/ /\ reboot_timer' = TRUE         \* luke_reboot
        /\ UNCHANGED <<targetVars, postVars, clockVars>>
  /\ UNCHANGED <<vars, rejected>>

ClockStep == Tick /\ UNCHANGED <<vars, reboot_timer, rejected>>

\* pm_reboot: nothing survives, the configured target neither.
_reboot ==
  /\ reboot_timer
  /\ counter' = 0 /\ sends_remaining' = 0
  /\ irq' = FALSE /\ debounce_timer' = FALSE /\ send_timer' = FALSE
  /\ msg_q' = 0 /\ pc' = "init" /\ points' = 0
  /\ pressed' = 0 /\ offered' = 0 /\ posted' = 0 /\ since' = 0
  /\ remote' = [addr |-> Unspecified, port |-> GcoapPort] /\ path' = NoPath
  /\ last_sent' = 0 /\ clock' = 0 /\ age' = ClockMod
  /\ post_pc' = "idle" /\ now' = 0 /\ req_path' = NoPath
  /\ retargeted' = FALSE
  /\ reboot_timer' = FALSE /\ rejected' = 0

MainStep == CallPost \/ PostReturnsZero \/ PostReturnsLen \/ PostGoesOn

NodeNext == MainStep \/ ControllerStep \/ GcoapStep \/ ClockStep \/ _reboot

\* Controller's fairness for the parts that Controller leaves open: timers
\* expire, and the main thread runs, post_points_to_target included.
NodeFairness ==
  /\ WF_nodeVars(_enable_button /\ UNCHANGED commonVars)
  /\ WF_nodeVars(SendTimerFires /\ UNCHANGED commonVars)
  /\ WF_nodeVars(MainStep \/ (ControllerStep /\ pc' # pc))

NodeSpec == NodeInit /\ [][NodeNext]_nodeVars /\ NodeFairness

-----------------------------------------------------------------------------
(***************************************************************************)
(* Properties                                                              *)
(***************************************************************************)

\* Controller's types, and those of the target and of the running post.
NodeTypeOK ==
  /\ TypeOK
  /\ remote \in Remotes /\ path \in Paths \cup {NoPath}
  /\ last_sent \in 0..ClockMod - 1 /\ clock \in 0..ClockMod - 1
  /\ age \in 0..ClockMod
  /\ post_pc \in PostLocation /\ now \in 0..ClockMod - 1
  /\ post_pc # "idle" => pc = "post"
  /\ req_path \in Paths \cup {NoPath}
  /\ retargeted \in BOOLEAN
  /\ rejected \in 0..MaxPresses /\ reboot_timer \in BOOLEAN

\* Whatever presses, target requests and reboots do to a running post, each
\* press since boot is counted, in hand, in a request that went out or in a
\* post that returned zero, and in one of them only; no counter wraps.
PointsAccounted == NodeTypeOK /\ pressed = counter + points + posted + rejected

\* The node implements the tally, for which a post that returned zero hands
\* over its points too: no press waits for ever or is offered twice, whatever
\* refusals, target requests and reboots come in between.
NodeTally == INSTANCE PointTally WITH offered <- posted + rejected
ImplementsTally == NodeTally!TallySpec

\* A request that goes out is for the target configured at that moment, with an
\* address and a path, unless luke_set_target ran while post_points_to_target
\* did, its tests of address and path included: only then can the request pair
\* the old path with the new address, or go to ::.  (To port zero it goes after
\* any target request whose address was bad, see MisparseTarget.)
TornOnlyByRetarget ==
  [][(SendRequest(TRUE) /\ ~retargeted) =>
        /\ Request = [addr |-> remote.addr, port |-> remote.port, path |-> path]
        /\ ~NoTarget]_nodeVars

\* common.c:72-73 refuses a post with "Last send less than a second ago": no
\* request goes out less than a second after the one before.
SecondBetweenPosts == [][PostChecked => age >= Second]_nodeVars

=============================================================================
