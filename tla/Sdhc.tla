-------------------------------- MODULE Sdhc --------------------------------
(***************************************************************************)
(* The SD host driver (src/sdhc.c).  The main context executes one command *)
(* at a time: it starts the controller and polls intr_status, the soft     *)
(* copy of the interrupt bits that sdhc_intr collects.  The controller, the*)
(* user's hand on the card, and the handler act between any two of its     *)
(* steps; the controller and the hand also between the handler's.          *)
(*                                                                         *)
(* The controller's registers are 32 bits wide and sdhc.c writes a half by *)
(* reading the word and writing it back: status bits are cleared by        *)
(* writing ones, so writing one half clears all that is set in the other.  *)
(***************************************************************************)
EXTENDS Integers

CONSTANTS MaxCmd,     \* commands executed
          MaxCard,    \* insertions and removals
          MaxDma      \* DMA boundaries per transfer

ASSUME BoundsAssumption == MaxCmd \in Nat /\ MaxCard \in Nat /\ MaxDma \in Nat

CmdBits == {"CC", "TC", "DMA"}    \* COMMAND_COMPLETE, TRANSFER_COMPLETE, DMA_INTERRUPT
Bits    == CmdBits \cup {"card", "ERROR"}
Phases  == {"idle", "cmd", "data", "boundary", "failed"}

VARIABLES hw,        \* the command in the controller, its phase, boundaries so far
          nintr,     \* NINTR_STATUS without ERROR_INTERRUPT
          eintr,     \* some bit of EINTR_STATUS is set
          enabled,   \* NINTR/EINTR_STATUS_EN, NINTR_SIGNAL_EN, EINTR_SIGNAL_EN
          present,   \* a card is in the slot
          intr,      \* intr_status
          pc, cmd,   \* main context, and its struct sdmmc_command
          for,       \* what sdhc_wait_intr waits for: its mask
          status,    \* its local status
          reg,       \* the register of intr_status &= ~status
          irq,       \* where sdhc_intr is
          irqStatus, irqError, irqSignal,   \* its locals
          discovers, \* IPC_SDHC_DISCOVER requests in the slow queue
          known,     \* card_detect, when sdmmc_needs_discover last looked
          cards,     \* insertions and removals so far
          \* History: commands the controller completed and failed; a command
          \* was given up on while it was under way; an error was acknowledged
          \* unseen; a card event was; the controller did not reset.
          done, failed, gaveUp, lostError, wiped, resetFailed

hwVars   == <<hw, nintr, eintr, enabled, present, cards>>
mainVars == <<pc, cmd, for, status, reg>>
irqVars  == <<irq, irqStatus, irqError, irqSignal>>
history  == <<done, failed, gaveUp, lostError, wiped, resetFailed>>
vars == <<hwVars, intr, mainVars, irqVars, discovers, known, history>>

AllOn == [status |-> TRUE, nsig |-> TRUE, esig |-> TRUE]
NoCmd == [id |-> 0, data |-> FALSE]
Quiet == [cmd |-> NoCmd, phase |-> "idle", dma |-> 0]

\* After sdhc_init: the controller was reset, and sdmmc_attach has looked for a
\* card.
Init ==
  /\ hw = Quiet /\ nintr = {} /\ eintr = FALSE /\ enabled = AllOn
  /\ present \in BOOLEAN /\ known = present /\ discovers = 0
  /\ intr = {} /\ pc = "idle" /\ cmd = NoCmd
  /\ for = {} /\ status = {} /\ reg = {}
  /\ irq = "none" /\ irqStatus = {} /\ irqError = FALSE /\ irqSignal = FALSE
  /\ cards = 0
  /\ done = {} /\ failed = {} /\ gaveUp = FALSE /\ lostError = FALSE
  /\ wiped = FALSE /\ resetFailed = FALSE

(***************************************************************************)
(* The controller and the card.                                            *)
(***************************************************************************)
Raise(bits) == nintr' = IF enabled.status THEN nintr \cup bits ELSE nintr
Phase(p) == hw' = [hw EXCEPT !.phase = p]

CommandDone ==
  /\ hw.phase = "cmd" /\ Raise({"CC"})
  /\ IF hw.cmd.data THEN Phase("data") /\ UNCHANGED done
     ELSE Phase("idle") /\ done' = done \cup {hw.cmd.id}
  /\ UNCHANGED <<eintr, failed>>

Boundary ==
  /\ hw.phase = "data" /\ hw.dma < MaxDma
  /\ hw' = [hw EXCEPT !.phase = "boundary", !.dma = @ + 1]
  /\ Raise({"DMA"}) /\ UNCHANGED <<eintr, done, failed>>

TransferDone ==
  /\ hw.phase = "data" /\ Phase("idle") /\ Raise({"TC"})
  /\ done' = done \cup {hw.cmd.id} /\ UNCHANGED <<eintr, failed>>

\* A command may be reported both complete and timed out (sdhc.c:713).
ControllerError ==
  /\ hw.phase \in {"cmd", "data"} /\ Phase("failed")
  /\ eintr' = (eintr \/ enabled.status)
  /\ Raise({}) \/ (hw.phase = "cmd" /\ Raise({"CC"}))
  /\ failed' = failed \cup {hw.cmd.id} /\ UNCHANGED done

Controller ==
  /\ CommandDone \/ Boundary \/ TransferDone \/ ControllerError
  /\ UNCHANGED <<enabled, present, cards, intr, mainVars, irqVars, discovers,
                 known, gaveUp, lostError, wiped, resetFailed>>

CardEvent ==
  /\ cards < MaxCard /\ cards' = cards + 1
  /\ present' = ~present /\ Raise({"card"})
  /\ wiped' = (wiped \/ ~enabled.status)
  /\ UNCHANGED <<hw, eintr, enabled, intr, mainVars, irqVars, discovers, known,
                 done, failed, gaveUp, lostError, resetFailed>>

(***************************************************************************)
(* sdhc_intr.                                                              *)
(***************************************************************************)
Line == (enabled.nsig /\ nintr # {}) \/ (enabled.esig /\ eintr)

Pending == nintr \cup (IF eintr THEN {"ERROR"} ELSE {})

IrqStatus ==
  /\ irq = "none" /\ Line
  /\ irqStatus' = Pending /\ irq' = "ack"
  /\ UNCHANGED <<hwVars, intr, mainVars, irqError, irqSignal, discovers, known,
                 history>>

\* Acknowledge what was read, and with it whatever the other half holds.
Acked_all == {}
Acked_none == nintr
Acked == nintr \ irqStatus

IrqAck ==
  /\ irq = "ack"
  /\ nintr' = Acked /\ eintr' = FALSE
  /\ lostError' = (lostError \/ (eintr /\ "ERROR" \notin irqStatus))
  /\ irq' = IF "ERROR" \in irqStatus THEN "error" ELSE "finish"
  /\ UNCHANGED <<hw, enabled, present, cards, intr, mainVars, irqStatus,
                 irqError, irqSignal, discovers, known, done, failed, gaveUp,
                 wiped, resetFailed>>

\* SDHC_RESET_DAT | SDHC_RESET_CMD.
SoftReset == hw' = Quiet /\ nintr' = nintr \ CmdBits

IrqError_order ==
  /\ irq = "error" /\ irq' = "errack"
  /\ irqError' = eintr /\ irqSignal' = FALSE
  /\ enabled' = [enabled EXCEPT !.esig = FALSE]
  /\ SoftReset
  /\ UNCHANGED <<eintr, present, cards, intr, mainVars, irqStatus, discovers,
                 known, history>>
IrqError ==
  /\ irq = "error" /\ irq' = "errack"
  /\ irqError' = eintr /\ irqSignal' = enabled.esig
  /\ enabled' = [enabled EXCEPT !.esig = FALSE]
  /\ SoftReset
  /\ UNCHANGED <<eintr, present, cards, intr, mainVars, irqStatus, discovers,
                 known, history>>

\* Writing EINTR_STATUS clears every bit of NINTR_STATUS.
IrqErrorAck ==
  /\ irq = "errack" /\ irq' = "finish"
  /\ nintr' = {} /\ wiped' = (wiped \/ "card" \in nintr)
  /\ eintr' = (eintr /\ ~irqError)
  /\ enabled' = [enabled EXCEPT !.esig = irqSignal]
  /\ intr' = IF irqError THEN intr \cup irqStatus ELSE intr
  /\ UNCHANGED <<hw, present, cards, mainVars, irqStatus, irqError, irqSignal,
                 discovers, known, done, failed, gaveUp, lostError, resetFailed>>

IrqFinish ==
  /\ irq = "finish" /\ irq' = "none"
  /\ discovers' = IF "card" \in irqStatus THEN discovers + 1 ELSE discovers
  /\ intr' = IF irqStatus \cap CmdBits # {} THEN intr \cup irqStatus ELSE intr
  /\ irqStatus' = {} /\ irqError' = FALSE /\ irqSignal' = FALSE
  /\ UNCHANGED <<hwVars, mainVars, known, history>>

Irq == IrqStatus \/ IrqAck \/ IrqError \/ IrqErrorAck \/ IrqFinish

(***************************************************************************)
(* The main context: sdhc_exec_command.                                    *)
(***************************************************************************)
\* The core takes an interrupt that is asserted before it goes on.
Main(at) == irq = "none" /\ ~Line /\ pc = at
Goto(at) == pc' = at
Rest == UNCHANGED <<irqVars, discovers, known, present, cards>>

Inhibited == hw.phase # "idle"

Cleared_not == intr
Cleared == {}

\* A new command, for which intr_status starts empty.
ExecCommand ==
  /\ Main("idle") /\ cmd.id < MaxCmd
  /\ \E d \in BOOLEAN : cmd' = [id |-> cmd.id + 1, data |-> d]
  /\ intr' = Cleared /\ Goto("start")
  /\ UNCHANGED <<hw, nintr, eintr, enabled, for, status, reg, history>> /\ Rest

\* sdhc_wait_state, then the write that triggers the command; or failure: too
\* much data, or five seconds gone.
StartCommand ==
  /\ Main("start")
  /\ \/ /\ ~Inhibited
        /\ hw' = [cmd |-> cmd, phase |-> "cmd", dma |-> 0]
        /\ for' = {"CC"} /\ Goto("poll")
     \/ cmd.data /\ Goto("failed") /\ UNCHANGED <<hw, for>>
     \/ Inhibited /\ Goto("failed") /\ UNCHANGED <<hw, for>>
  /\ UNCHANGED <<nintr, eintr, enabled, intr, cmd, status, reg, history>> /\ Rest

Mask_noerror == for
Mask == for \cup {"ERROR"}

\* The loop of sdhc_wait_intr: any bit ends it, wanted or not; so does time.
Poll ==
  /\ Main("poll")
  /\ status' = IF intr # {} THEN intr \cap Mask ELSE {"TIMEOUT"}
  /\ Goto("load")
  /\ UNCHANGED <<hw, nintr, eintr, enabled, intr, cmd, for, reg, history>> /\ Rest

\* hp->intr_status &= ~status: an interrupt can fall between load and store.
LoadIntr ==
  /\ Main("load") /\ reg' = intr /\ Goto("store")
  /\ UNCHANGED <<hw, nintr, eintr, enabled, intr, cmd, for, status, history>> /\ Rest

StoreIntr ==
  /\ Main("store") /\ intr' = reg \ status /\ reg' = {} /\ Goto("end")
  /\ UNCHANGED <<hw, nintr, eintr, enabled, cmd, for, status, history>> /\ Rest

\* The controller is still at work.
Unfinished == hw.phase \in {"cmd", "data", "boundary"}

Failing == {"TIMEOUT", "ERROR"} \cap status # {}

\* The end of sdhc_wait_intr, and what its caller makes of it.  An error resets
\* the controller; a timeout leaves it alone.
WaitEnd ==
  /\ Main("end") /\ status' = {}
  /\ IF "ERROR" \in status THEN SoftReset ELSE UNCHANGED <<hw, nintr>>
  /\ LET got == IF Failing THEN {} ELSE status \cap for IN
     \/ /\ got = {} /\ Goto("failed") /\ UNCHANGED for
        /\ gaveUp' = (gaveUp \/ (Unfinished /\ "ERROR" \notin status))
     \/ /\ "CC" \in got /\ cmd.data
        /\ for' = {"TC", "DMA"} /\ Goto("poll") /\ UNCHANGED gaveUp
     \/ /\ "TC" \in got \/ ("CC" \in got /\ ~cmd.data)
        /\ Goto("ok") /\ UNCHANGED <<for, gaveUp>>
     \/ /\ "TC" \notin got /\ "DMA" \in got
        /\ Goto("restart") /\ UNCHANGED <<for, gaveUp>>
  /\ UNCHANGED <<eintr, enabled, intr, cmd, reg, done, failed, lostError, wiped,
                 resetFailed>> /\ Rest

\* Writing the DMA address back lets the controller go on.
DmaRestart ==
  /\ Main("restart") /\ Goto("poll")
  /\ hw' = IF hw.phase = "boundary" THEN [hw EXCEPT !.phase = "data"] ELSE hw
  /\ UNCHANGED <<nintr, eintr, enabled, intr, cmd, for, status, reg, history>> /\ Rest

\* The caller: after a failure it may turn the bus power off.
Return ==
  /\ \/ Main("ok") /\ Goto("idle")
     \/ Main("failed") /\ (Goto("idle") \/ Goto("poweroff"))
  /\ for' = {}
  /\ UNCHANGED <<hw, nintr, eintr, enabled, intr, cmd, status, reg, history>> /\ Rest

(***************************************************************************)
(* sdhc_host_reset, for sdmmc_needs_discover or sdhc_bus_power(0).         *)
(***************************************************************************)
Discovering == {"discover", "reset1", "enable1", "signal1", "detect"}

Discover ==
  /\ Main("idle") /\ discovers > 0 /\ discovers' = discovers - 1
  /\ Goto("discover")
  /\ UNCHANGED <<hwVars, intr, cmd, for, status, reg, irqVars, known, history>>

SignalOff ==
  /\ \/ Main("discover") /\ Goto("reset1")
     \/ Main("poweroff") /\ Goto("reset2")
  /\ enabled' = [enabled EXCEPT !.nsig = FALSE]
  /\ UNCHANGED <<hw, nintr, eintr, intr, cmd, for, status, reg, history>> /\ Rest

\* SDHC_RESET_ALL, or its failure: nobody looks at the error.
ResetAll ==
  /\ Main("reset1") \/ Main("reset2")
  /\ \/ /\ hw' = Quiet /\ nintr' = {} /\ eintr' = FALSE
        /\ enabled' = [status |-> FALSE, nsig |-> FALSE, esig |-> FALSE]
        /\ wiped' = (wiped \/ "card" \in nintr)
        /\ gaveUp' = FALSE /\ lostError' = FALSE /\ resetFailed' = FALSE
        /\ Goto(IF pc = "reset1" THEN "enable1" ELSE "enable2")
     \/ /\ resetFailed' = TRUE /\ Goto(IF pc = "reset1" THEN "detect" ELSE "idle")
        /\ UNCHANGED <<hw, nintr, eintr, enabled, wiped, gaveUp, lostError>>
  /\ UNCHANGED <<intr, cmd, for, status, reg, done, failed>> /\ Rest

EnableStatus ==
  /\ \/ Main("enable1") /\ Goto("signal1")
     \/ Main("enable2") /\ Goto("signal2")
  /\ enabled' = [enabled EXCEPT !.status = TRUE]
  /\ UNCHANGED <<hw, nintr, eintr, intr, cmd, for, status, reg, history>> /\ Rest

EnableSignals ==
  /\ \/ Main("signal1") /\ Goto("detect")
     \/ Main("signal2") /\ Goto("idle")
  /\ enabled' = AllOn
  /\ UNCHANGED <<hw, nintr, eintr, intr, cmd, for, status, reg, history>> /\ Rest

CardDetect ==
  /\ Main("detect") /\ known' = present /\ Goto("idle") /\ wiped' = FALSE
  /\ UNCHANGED <<hwVars, intr, cmd, for, status, reg, irqVars, discovers,
                 done, failed, gaveUp, lostError, resetFailed>>

MainStep ==
  \/ ExecCommand \/ StartCommand \/ Poll \/ LoadIntr \/ StoreIntr \/ WaitEnd
  \/ DmaRestart \/ Return \/ Discover \/ SignalOff \/ ResetAll \/ EnableStatus
  \/ EnableSignals \/ CardDetect

Next == Controller \/ CardEvent \/ Irq \/ MainStep
Spec == Init /\ [][Next]_vars

-----------------------------------------------------------------------------
MainPcs == {"idle", "start", "poll", "load", "store", "end", "restart", "ok",
            "failed", "poweroff", "reset2", "enable2", "signal2"} \cup Discovering
Cmds == [id : 0..MaxCmd, data : BOOLEAN]

\* The types of sdhc_host, sdmmc_command and the registers; one discover
\* request is queued for each card event at most (sdhc.c:755, 789-793).
TypeOK ==
  /\ hw \in [cmd : Cmds, phase : Phases, dma : 0..MaxDma]
  /\ nintr \subseteq CmdBits \cup {"card"} /\ eintr \in BOOLEAN
  /\ enabled \in [status : BOOLEAN, nsig : BOOLEAN, esig : BOOLEAN]
  /\ present \in BOOLEAN /\ known \in BOOLEAN
  /\ intr \subseteq Bits /\ pc \in MainPcs /\ cmd \in Cmds
  /\ for \subseteq CmdBits /\ status \subseteq Bits \cup {"TIMEOUT"} /\ reg \subseteq Bits
  /\ irq \in {"none", "ack", "error", "errack", "finish"}
  /\ irqStatus \subseteq Bits /\ irqError \in BOOLEAN /\ irqSignal \in BOOLEAN
  /\ discovers \in 0..MaxCard /\ cards \in 0..MaxCard
  /\ done \subseteq 1..MaxCmd /\ failed \subseteq 1..MaxCmd
  /\ gaveUp \in BOOLEAN /\ lostError \in BOOLEAN /\ wiped \in BOOLEAN /\ resetFailed \in BOOLEAN

\* A command is reported successful only if the controller completed that very
\* command (sdhc.c:435, 453, 611), unless an earlier one was given up on while
\* the controller still worked on it, or an error was wiped by the
\* acknowledgement of another interrupt (sdhc.c:755).  Resetting the host
\* ends both exceptions.
SuccessIsOwn == pc = "ok" => cmd.id \in done \/ gaveUp \/ lostError

\* A wait fails only when time is up or an error was recorded, unless a card
\* event left its bit in intr_status (sdhc.c:698-700, 802) or a completion of a
\* command given up on is there.
FailureHasCause ==
  [][pc = "end" /\ pc' = "failed" =>
       status \cap {"TIMEOUT", "ERROR"} # {} \/ "card" \in intr \/ gaveUp]_vars

\* "Wait until the command phase is done, or until the command is marked done
\* for any other reason" (sdhc.c:448): a command that is reported successful has
\* ended in the controller, one way or the other.
PhaseDone == pc = "ok" => cmd.id \in done \cup failed

Resetting == pc \in Discovering \cup {"reset2", "enable2", "signal2"}
\* Main context and handler rewrite the same enable registers (sdhc.c:243-269,
\* 765-776): outside a reset and the handler every interrupt is on, unless the
\* controller did not come out of its last reset.
Armed == ~Resetting /\ irq = "none" /\ ~resetFailed => enabled = AllOn

\* When the driver's idea of the slot is wrong the change is on its way to it:
\* pending, in the handler, or queued (sdhc.c:748-755, 788-793); only a reset,
\* or the acknowledgement of an error, can have wiped it.
CardNoticed ==
  known # present =>
    \/ "card" \in nintr \cup irqStatus \/ discovers > 0
    \/ pc \in Discovering \/ wiped
=============================================================================
