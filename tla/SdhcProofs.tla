----------------------------- MODULE SdhcProofs -----------------------------
(***************************************************************************)
(* Proofs about the SD host driver for every number of commands, card      *)
(* changes and DMA boundaries.                                             *)
(***************************************************************************)
EXTENDS Sdhc, TLAPS

Running == pc \in {"poll", "load", "store", "end", "restart"}
Off     == {"enable1", "enable2", "signal1", "signal2"}

\* The interrupt enables. Errors are off only inside a reset and where the
\* handler will put them back; the others only inside a reset or after one
\* that failed.
ErrorsOn == IF irq = "errack" THEN irqSignal ELSE enabled.esig
Switches ==
  /\ pc \in Off => /\ irq = "none" /\ ~enabled.nsig /\ ~enabled.esig
                   /\ hw.phase = "idle" /\ nintr \cap CmdBits = {} /\ ~eintr
  /\ pc \notin Off => ErrorsOn
  /\ enabled.status \/ pc \in {"enable1", "enable2"}
  /\ enabled.nsig \/ pc \in Off \cup {"reset1", "reset2"} \/ resetFailed

\* The handler. An error leaves the controller stopped until the handler resets
\* it, and acknowledging the normal half clears the error half: the error the
\* handler then reads is always zero.
Handler ==
  /\ irq = "none" => irqStatus = {}
  /\ eintr => hw.phase = "failed" /\ irq # "error"
  /\ irq \in {"error", "errack"} => "ERROR" \in irqStatus
  /\ "ERROR" \in irqStatus =>
       /\ irq = "ack" => hw.phase = "failed" /\ nintr \cap CmdBits \subseteq irqStatus
       /\ irq = "error" => hw.phase = "failed" /\ nintr \cap CmdBits = {}
       /\ irq \in {"errack", "finish"} => hw.phase = "idle" /\ nintr \cap CmdBits = {}
  /\ ~irqError

\* Every request to look for a card has a card event of its own.
Two(a, b) == (IF a THEN 1 ELSE 0) + (IF b THEN 1 ELSE 0)
Coming == IF irq = "ack" THEN Two("card" \in nintr \cup irqStatus, FALSE)
                         ELSE Two("card" \in nintr, "card" \in irqStatus)
Counted == discovers + Coming <= cards

\* Numbers: a command is started once and ends once.
Numbers ==
  /\ hw.cmd.id <= cmd.id /\ (hw.phase # "idle" => hw.cmd.id >= 1)
  /\ pc = "start" => hw.cmd.id < cmd.id /\ cmd.id \notin done
  /\ done \subseteq 1..cmd.id /\ failed \subseteq 1..cmd.id
  /\ Unfinished => hw.cmd.id \notin done
  /\ Running => cmd.id >= 1 /\ (hw.phase # "idle" => hw.cmd = cmd)
  /\ gaveUp \/ Running \/ ~Unfinished

\* With the normal interrupts off nothing gets through but together with an
\* error.
Deaf ==
  ~enabled.nsig =>
    /\ irq # "none" => "ERROR" \in irqStatus
    /\ pc \in {"start", "poll"} => intr = {} \/ "ERROR" \in intr
    /\ pc \in {"load", "store", "end"} => Failing
    /\ pc # "restart"

\* What a set of bits says of the command: seeing it end means that it has,
\* with the error next to it if it failed.
Ended(bits, error) ==
  "TC" \in bits \/ ("CC" \in bits /\ ~cmd.data) =>
     ~Unfinished /\ (cmd.id \in done \/ error \/ lostError)

Listening == enabled.nsig /\ ~gaveUp

Fresh ==
  Listening /\ pc = "start" =>
    intr \cap CmdBits = {} /\ nintr \cap CmdBits = {} /\ irqStatus \cap CmdBits = {}

Evidence ==
  Listening /\ Running =>
    /\ Ended(nintr, eintr) /\ Ended(irqStatus, "ERROR" \in irqStatus)
    /\ Ended(intr, "ERROR" \in intr) \/ (pc = "end" /\ "ERROR" \in status)
    /\ Ended(reg, "ERROR" \in reg) /\ Ended(status, "ERROR" \in status)

\* COMMAND_COMPLETE is raised once and comes before the other bits.
Ahead == nintr \cup irqStatus \cup intr
Stages ==
  Listening /\ Running =>
    /\ for \in {{"CC"}, {"TC", "DMA"}}
    /\ for = {"CC"} /\ pc = "poll" =>
         (hw.phase \in {"data", "boundary"} \/ {"TC", "DMA"} \cap Ahead # {}
            => "CC" \in Ahead)
    /\ for = {"CC"} => pc # "restart"
    /\ for = {"TC", "DMA"} => hw.phase # "cmd" /\ "CC" \notin Ahead
Once ==
  Listening /\ Running =>
    /\ hw.phase = "cmd" => "CC" \notin Ahead \cup status
    /\ "CC" \in nintr => /\ "CC" \notin intr \cup status
                         /\ "CC" \in irqStatus => irq = "ack"
    /\ "CC" \in irqStatus => "CC" \notin intr \cup status
    /\ pc = "end" /\ "CC" \in status => "CC" \notin intr

\* What a poll took.
Taken ==
  /\ pc \notin {"load", "store", "end"} => status = {}
  /\ pc # "store" => reg = {}
  /\ status \subseteq for \cup {"ERROR", "TIMEOUT"}
  /\ Listening /\ status = {} =>
       /\ pc \in {"load", "store", "end"} => "card" \in intr
       /\ pc = "store" => "card" \in reg
  /\ pc = "store" => reg \subseteq intr

Protocol == Fresh /\ Evidence /\ Stages /\ Once /\ Taken
IInv == /\ TypeOK /\ Switches /\ Handler /\ Counted /\ Numbers /\ Deaf /\ Protocol
        /\ SuccessIsOwn /\ CardNoticed

-----------------------------------------------------------------------------
\* TypeOK in parts, for the steps that disturb many of them.
HwType == [cmd : Cmds, phase : Phases, dma : 0..MaxDma]
OnType == [status : BOOLEAN, nsig : BOOLEAN, esig : BOOLEAN]
SetsTyped ==
  /\ nintr \subseteq CmdBits \cup {"card"} /\ intr \subseteq Bits
  /\ irqStatus \subseteq Bits /\ for \subseteq CmdBits /\ reg \subseteq Bits
  /\ status \subseteq Bits \cup {"TIMEOUT"}
  /\ done \subseteq 1..MaxCmd /\ failed \subseteq 1..MaxCmd
PlacesTyped == /\ pc \in MainPcs /\ cmd \in Cmds
               /\ irq \in {"none", "ack", "error", "errack", "finish"}
FlagsTyped ==
  /\ eintr \in BOOLEAN /\ present \in BOOLEAN /\ known \in BOOLEAN
  /\ irqError \in BOOLEAN /\ irqSignal \in BOOLEAN /\ gaveUp \in BOOLEAN
  /\ lostError \in BOOLEAN /\ wiped \in BOOLEAN /\ resetFailed \in BOOLEAN

LEMMA QuietTyped == Quiet \in HwType
BY BoundsAssumption DEF Quiet, NoCmd, HwType, Cmds, Phases

LEMMA InitInv == Init => IInv
<1> SUFFICES ASSUME Init PROVE IInv
  OBVIOUS
<1> USE BoundsAssumption DEF Init, Quiet, NoCmd, AllOn
<1>1. TypeOK
  <2>1. hw \in HwType /\ enabled \in OnType
    BY QuietTyped DEF OnType
  <2>2. cmd \in Cmds /\ pc \in MainPcs
    BY DEF Cmds, MainPcs
  <2>3. SetsTyped
    BY DEF SetsTyped
  <2>4. FlagsTyped
    BY DEF FlagsTyped
  <2> QED
    BY <2>1, <2>2, <2>3, <2>4 DEF TypeOK, HwType, OnType, SetsTyped, FlagsTyped
<1>2. Switches /\ Handler /\ Counted /\ Numbers /\ Deaf
  BY DEF Switches, Handler, Counted, Coming, Two, Numbers, Deaf, Off, ErrorsOn,
     Unfinished, Running
<1>3. Fresh /\ Evidence /\ Stages /\ Once /\ Taken
  BY DEF Fresh, Evidence, Stages, Once, Taken, Running
<1>4. SuccessIsOwn /\ CardNoticed
  BY DEF SuccessIsOwn, CardNoticed
<1> QED
  BY <1>1, <1>2, <1>3, <1>4 DEF IInv, Protocol

\* Every step keeps the types. There is no more than one request for a card
\* event, by Counted; commands that end have a number, by Numbers.
LEMMA StepTyped == ASSUME TypeOK, Counted, Numbers, [Next]_vars PROVE TypeOK'
<1> USE BoundsAssumption
    DEF Cmds, Phases, Bits, CmdBits, MainPcs, Discovering, Raise, Phase, Main,
        Goto, Rest, Line, hwVars, mainVars, irqVars, history
<1>1. CASE Controller /\ CommandDone
  BY <1>1 DEF TypeOK, Numbers, Controller, CommandDone
<1>2. CASE Controller /\ Boundary
  <2>1. hw.dma + 1 \in 0..MaxDma
    BY <1>2 DEF TypeOK, Boundary
  <2>2. hw' \in HwType
    BY <1>2, <2>1 DEF TypeOK, HwType, Boundary
  <2> QED
    BY <1>2, <2>2 DEF TypeOK, HwType, Controller, Boundary
<1>3. CASE Controller /\ TransferDone
  BY <1>3 DEF TypeOK, Numbers, Controller, TransferDone
<1>4. CASE Controller /\ ControllerError
  BY <1>4 DEF TypeOK, Numbers, Controller, ControllerError
<1>5. CASE CardEvent BY <1>5 DEF TypeOK, CardEvent
<1>6. CASE IrqStatus BY <1>6 DEF TypeOK, IrqStatus, Pending
<1>7. CASE IrqAck
  <2>1. hw' \in HwType /\ enabled' \in OnType
    BY <1>7, QuietTyped DEF TypeOK, HwType, OnType, IrqAck, Acked
  <2>2. discovers' \in 0..MaxCard /\ cards' \in 0..MaxCard
    BY <1>7 DEF TypeOK, Counted, Coming, Two, IrqAck
  <2>3. SetsTyped'
    BY <1>7 DEF TypeOK, SetsTyped, IrqAck, Acked
  <2>4. PlacesTyped'
    BY <1>7 DEF TypeOK, PlacesTyped, IrqAck, Acked
  <2>5. FlagsTyped'
    BY <1>7 DEF TypeOK, FlagsTyped, IrqAck, Acked
  <2> QED
    BY <2>1, <2>2, <2>3, <2>4, <2>5
    DEF TypeOK, HwType, OnType, SetsTyped, PlacesTyped, FlagsTyped
<1>8. CASE IrqError
  <2>1. hw' \in HwType /\ enabled' \in OnType
    BY <1>8, QuietTyped DEF TypeOK, HwType, OnType, IrqError, SoftReset
  <2> QED
    BY <1>8, <2>1 DEF TypeOK, HwType, OnType, IrqError, SoftReset, Quiet, NoCmd
<1>9. CASE IrqErrorAck BY <1>9 DEF TypeOK, IrqErrorAck
<1>10. CASE IrqFinish
  <2>1. hw' \in HwType /\ enabled' \in OnType
    BY <1>10, QuietTyped DEF TypeOK, HwType, OnType, IrqFinish
  <2>2. discovers' \in 0..MaxCard /\ cards' \in 0..MaxCard
    BY <1>10 DEF TypeOK, Counted, Coming, Two, IrqFinish
  <2>3. SetsTyped'
    BY <1>10 DEF TypeOK, SetsTyped, IrqFinish
  <2>4. PlacesTyped'
    BY <1>10 DEF TypeOK, PlacesTyped, IrqFinish
  <2>5. FlagsTyped'
    BY <1>10 DEF TypeOK, FlagsTyped, IrqFinish
  <2> QED
    BY <2>1, <2>2, <2>3, <2>4, <2>5
    DEF TypeOK, HwType, OnType, SetsTyped, PlacesTyped, FlagsTyped
<1>11. CASE ExecCommand BY <1>11 DEF TypeOK, ExecCommand, Cleared
<1>12. CASE StartCommand
  <2>1. hw' \in HwType /\ enabled' \in OnType
    BY <1>12, QuietTyped DEF TypeOK, HwType, OnType, StartCommand, Inhibited
  <2>2. discovers' \in 0..MaxCard /\ cards' \in 0..MaxCard
    BY <1>12 DEF TypeOK, Counted, Coming, Two, StartCommand
  <2>3. SetsTyped'
    BY <1>12 DEF TypeOK, SetsTyped, StartCommand, Inhibited
  <2>4. PlacesTyped'
    BY <1>12 DEF TypeOK, PlacesTyped, StartCommand, Inhibited
  <2>5. FlagsTyped'
    BY <1>12 DEF TypeOK, FlagsTyped, StartCommand, Inhibited
  <2> QED
    BY <2>1, <2>2, <2>3, <2>4, <2>5
    DEF TypeOK, HwType, OnType, SetsTyped, PlacesTyped, FlagsTyped
<1>13. CASE Poll BY <1>13 DEF TypeOK, Poll, Mask
<1>14. CASE LoadIntr BY <1>14 DEF TypeOK, LoadIntr
<1>15. CASE StoreIntr BY <1>15 DEF TypeOK, StoreIntr
<1>16. CASE WaitEnd
  <2>1. hw' \in HwType /\ enabled' \in OnType
    BY <1>16, QuietTyped
    DEF TypeOK, HwType, OnType, WaitEnd, SoftReset, Failing, Unfinished
  <2>2. discovers' \in 0..MaxCard /\ cards' \in 0..MaxCard
    BY <1>16 DEF TypeOK, Counted, Coming, Two, WaitEnd
  <2>3. SetsTyped'
    BY <1>16
    DEF TypeOK, SetsTyped, WaitEnd, SoftReset, Quiet, NoCmd, Failing, Unfinished
  <2>4. PlacesTyped'
    BY <1>16
    DEF TypeOK, PlacesTyped, WaitEnd, SoftReset, Quiet, NoCmd, Failing, Unfinished
  <2>5. FlagsTyped'
    BY <1>16
    DEF TypeOK, FlagsTyped, WaitEnd, SoftReset, Quiet, NoCmd, Failing, Unfinished
  <2> QED
    BY <2>1, <2>2, <2>3, <2>4, <2>5
    DEF TypeOK, HwType, OnType, SetsTyped, PlacesTyped, FlagsTyped
<1>17. CASE DmaRestart BY <1>17 DEF TypeOK, DmaRestart
<1>18. CASE Return BY <1>18 DEF TypeOK, Return
<1>19. CASE Discover BY <1>19 DEF TypeOK, Discover
<1>20. CASE SignalOff
  <2>1. hw' \in HwType /\ enabled' \in OnType
    BY <1>20, QuietTyped DEF TypeOK, HwType, OnType, SignalOff
  <2> QED
    BY <1>20, <2>1 DEF TypeOK, HwType, OnType, SignalOff
<1>21. CASE ResetAll
  <2>1. hw' \in HwType /\ enabled' \in OnType
    <3>1. CASE hw' = Quiet /\ enabled' = [status |-> FALSE, nsig |-> FALSE,
                                          esig |-> FALSE]
      BY <3>1, QuietTyped DEF OnType
    <3>2. CASE UNCHANGED <<hw, enabled>>
      BY <3>2 DEF TypeOK, HwType, OnType
    <3> QED
      BY <1>21, <3>1, <3>2 DEF ResetAll
  <2>2. discovers' \in 0..MaxCard /\ cards' \in 0..MaxCard
    BY <1>21 DEF TypeOK, Counted, Coming, Two, ResetAll
  <2>3. SetsTyped'
    BY <1>21 DEF TypeOK, SetsTyped, ResetAll, Quiet, NoCmd
  <2>4. PlacesTyped'
    BY <1>21 DEF TypeOK, PlacesTyped, ResetAll, Quiet, NoCmd
  <2>5. FlagsTyped'
    BY <1>21 DEF TypeOK, FlagsTyped, ResetAll, Quiet, NoCmd
  <2> QED
    BY <2>1, <2>2, <2>3, <2>4, <2>5
    DEF TypeOK, HwType, OnType, SetsTyped, PlacesTyped, FlagsTyped
<1>22. CASE EnableStatus
  <2>1. hw' \in HwType /\ enabled' \in OnType
    BY <1>22, QuietTyped DEF TypeOK, HwType, OnType, EnableStatus
  <2> QED
    BY <1>22, <2>1 DEF TypeOK, HwType, OnType, EnableStatus
<1>23. CASE EnableSignals BY <1>23 DEF TypeOK, EnableSignals, AllOn
<1>24. CASE CardDetect
  <2>1. hw' \in HwType /\ enabled' \in OnType
    BY <1>24, QuietTyped DEF TypeOK, HwType, OnType, CardDetect
  <2> QED
    BY <1>24, <2>1 DEF TypeOK, HwType, OnType, CardDetect
<1>25. CASE UNCHANGED vars BY <1>25 DEF TypeOK, vars
<1> QED
  BY <1>1, <1>2, <1>3, <1>4, <1>5, <1>6, <1>7, <1>8, <1>9, <1>10, <1>11,
     <1>12, <1>13, <1>14, <1>15, <1>16, <1>17, <1>18, <1>19, <1>20, <1>21,
     <1>22, <1>23, <1>24, <1>25 DEF Next, Controller, Irq, MainStep

\* The enables are changed by resets, by the handler, and by the handler back.
LEMMA StepSwitches ==
  ASSUME TypeOK, Switches, Handler, [Next]_vars
  PROVE  Switches'
<1> USE DEF TypeOK, Cmds, Phases, Bits, CmdBits, MainPcs, Discovering,
     Switches, Handler, Off, ErrorsOn, Raise, Phase, Main, Goto, Rest, Line,
     hwVars, mainVars, irqVars, history
<1>1. CASE Controller /\ CommandDone BY <1>1 DEF Controller, CommandDone
<1>2. CASE Controller /\ Boundary BY <1>2 DEF Controller, Boundary
<1>3. CASE Controller /\ TransferDone BY <1>3 DEF Controller, TransferDone
<1>4. CASE Controller /\ ControllerError BY <1>4 DEF Controller, ControllerError
<1>5. CASE CardEvent BY <1>5 DEF CardEvent
<1>6. CASE IrqStatus BY <1>6 DEF IrqStatus, Pending
<1>7. CASE IrqAck BY <1>7 DEF IrqAck, Acked
<1>8. CASE IrqError BY <1>8 DEF IrqError, SoftReset, Quiet, NoCmd
<1>9. CASE IrqErrorAck BY <1>9 DEF IrqErrorAck
<1>10. CASE IrqFinish BY <1>10 DEF IrqFinish
<1>11. CASE ExecCommand BY <1>11 DEF ExecCommand, Cleared
<1>12. CASE StartCommand BY <1>12 DEF StartCommand, Inhibited
<1>13. CASE Poll BY <1>13 DEF Poll, Mask
<1>14. CASE LoadIntr BY <1>14 DEF LoadIntr
<1>15. CASE StoreIntr BY <1>15 DEF StoreIntr
<1>16. CASE WaitEnd BY <1>16 DEF WaitEnd, SoftReset, Quiet, NoCmd, Failing, Unfinished
<1>17. CASE DmaRestart BY <1>17 DEF DmaRestart
<1>18. CASE Return BY <1>18 DEF Return
<1>19. CASE Discover BY <1>19 DEF Discover
<1>20. CASE SignalOff BY <1>20 DEF SignalOff
<1>21. CASE ResetAll BY <1>21 DEF ResetAll, Quiet, NoCmd
<1>22. CASE EnableStatus BY <1>22 DEF EnableStatus
<1>23. CASE EnableSignals BY <1>23 DEF EnableSignals, AllOn
<1>24. CASE CardDetect BY <1>24 DEF CardDetect
<1>25. CASE UNCHANGED vars BY <1>25 DEF vars
<1> QED
  BY <1>1, <1>2, <1>3, <1>4, <1>5, <1>6, <1>7, <1>8, <1>9, <1>10, <1>11,
     <1>12, <1>13, <1>14, <1>15, <1>16, <1>17, <1>18, <1>19, <1>20, <1>21,
     <1>22, <1>23, <1>24, <1>25 DEF Next, Controller, Irq, MainStep

\* An error stops the controller before the handler sees it; while the handler
\* runs, the main context does not.
LEMMA StepHandler ==
  ASSUME TypeOK, Switches, Handler, [Next]_vars
  PROVE  Handler'
<1> USE DEF TypeOK, Cmds, Phases, Bits, CmdBits, MainPcs, Discovering,
     Switches, Handler, Off, ErrorsOn, Raise, Phase, Main, Goto, Rest, Line,
     hwVars, mainVars, irqVars, history
<1>1. CASE Controller /\ CommandDone BY <1>1 DEF Controller, CommandDone
<1>2. CASE Controller /\ Boundary BY <1>2 DEF Controller, Boundary
<1>3. CASE Controller /\ TransferDone BY <1>3 DEF Controller, TransferDone
<1>4. CASE Controller /\ ControllerError BY <1>4 DEF Controller, ControllerError
<1>5. CASE CardEvent BY <1>5 DEF CardEvent
<1>6. CASE IrqStatus BY <1>6 DEF IrqStatus, Pending
<1>7. CASE IrqAck BY <1>7 DEF IrqAck, Acked
<1>8. CASE IrqError BY <1>8 DEF IrqError, SoftReset, Quiet, NoCmd
<1>9. CASE IrqErrorAck BY <1>9 DEF IrqErrorAck
<1>10. CASE IrqFinish BY <1>10 DEF IrqFinish
<1>11. CASE ExecCommand BY <1>11 DEF ExecCommand, Cleared
<1>12. CASE StartCommand BY <1>12 DEF StartCommand, Inhibited
<1>13. CASE Poll BY <1>13 DEF Poll, Mask
<1>14. CASE LoadIntr BY <1>14 DEF LoadIntr
<1>15. CASE StoreIntr BY <1>15 DEF StoreIntr
<1>16. CASE WaitEnd BY <1>16 DEF WaitEnd, SoftReset, Quiet, NoCmd, Failing, Unfinished
<1>17. CASE DmaRestart BY <1>17 DEF DmaRestart
<1>18. CASE Return BY <1>18 DEF Return
<1>19. CASE Discover BY <1>19 DEF Discover
<1>20. CASE SignalOff BY <1>20 DEF SignalOff
<1>21. CASE ResetAll BY <1>21 DEF ResetAll, Quiet, NoCmd
<1>22. CASE EnableStatus BY <1>22 DEF EnableStatus
<1>23. CASE EnableSignals BY <1>23 DEF EnableSignals, AllOn
<1>24. CASE CardDetect BY <1>24 DEF CardDetect
<1>25. CASE UNCHANGED vars BY <1>25 DEF vars
<1> QED
  BY <1>1, <1>2, <1>3, <1>4, <1>5, <1>6, <1>7, <1>8, <1>9, <1>10, <1>11,
     <1>12, <1>13, <1>14, <1>15, <1>16, <1>17, <1>18, <1>19, <1>20, <1>21,
     <1>22, <1>23, <1>24, <1>25 DEF Next, Controller, Irq, MainStep

\* A request is queued for a card bit that was raised once.
LEMMA StepCounted ==
  ASSUME TypeOK, Handler, Counted, [Next]_vars
  PROVE  Counted'
<1> USE DEF TypeOK, Cmds, Phases, Bits, CmdBits, MainPcs, Discovering,
     Handler, Counted, Coming, Two, Raise, Phase, Main, Goto, Rest, Line,
     hwVars, mainVars, irqVars, history
<1>1. CASE Controller /\ CommandDone BY <1>1 DEF Controller, CommandDone
<1>2. CASE Controller /\ Boundary BY <1>2 DEF Controller, Boundary
<1>3. CASE Controller /\ TransferDone BY <1>3 DEF Controller, TransferDone
<1>4. CASE Controller /\ ControllerError BY <1>4 DEF Controller, ControllerError
<1>5. CASE CardEvent BY <1>5 DEF CardEvent
<1>6. CASE IrqStatus BY <1>6 DEF IrqStatus, Pending
<1>7. CASE IrqAck BY <1>7 DEF IrqAck, Acked
<1>8. CASE IrqError BY <1>8 DEF IrqError, SoftReset, Quiet, NoCmd
<1>9. CASE IrqErrorAck BY <1>9 DEF IrqErrorAck
<1>10. CASE IrqFinish BY <1>10 DEF IrqFinish
<1>11. CASE ExecCommand BY <1>11 DEF ExecCommand, Cleared
<1>12. CASE StartCommand BY <1>12 DEF StartCommand, Inhibited
<1>13. CASE Poll BY <1>13 DEF Poll, Mask
<1>14. CASE LoadIntr BY <1>14 DEF LoadIntr
<1>15. CASE StoreIntr BY <1>15 DEF StoreIntr
<1>16. CASE WaitEnd BY <1>16 DEF WaitEnd, SoftReset, Quiet, NoCmd, Failing, Unfinished
<1>17. CASE DmaRestart BY <1>17 DEF DmaRestart
<1>18. CASE Return BY <1>18 DEF Return
<1>19. CASE Discover BY <1>19 DEF Discover
<1>20. CASE SignalOff BY <1>20 DEF SignalOff
<1>21. CASE ResetAll BY <1>21 DEF ResetAll, Quiet, NoCmd
<1>22. CASE EnableStatus BY <1>22 DEF EnableStatus
<1>23. CASE EnableSignals BY <1>23 DEF EnableSignals, AllOn
<1>24. CASE CardDetect BY <1>24 DEF CardDetect
<1>25. CASE UNCHANGED vars BY <1>25 DEF vars
<1> QED
  BY <1>1, <1>2, <1>3, <1>4, <1>5, <1>6, <1>7, <1>8, <1>9, <1>10, <1>11,
     <1>12, <1>13, <1>14, <1>15, <1>16, <1>17, <1>18, <1>19, <1>20, <1>21,
     <1>22, <1>23, <1>24, <1>25 DEF Next, Controller, Irq, MainStep

\* The end of a wait leaves the controller unfinished only if it gives up:
\* this is where Evidence comes in.
LEMMA StepNumbers ==
  ASSUME TypeOK, Switches, Handler, Deaf, Evidence, Numbers, [Next]_vars
  PROVE  Numbers'
<1> USE DEF TypeOK, Cmds, Phases, Bits, CmdBits, MainPcs, Discovering,
     Switches, Handler, Off, ErrorsOn, Deaf, Evidence, Ended, Listening,
     Failing, Numbers, Unfinished, Running, Raise, Phase, Main, Goto, Rest,
     Line, hwVars, mainVars, irqVars, history
<1>1. CASE Controller /\ CommandDone BY <1>1 DEF Controller, CommandDone
<1>2. CASE Controller /\ Boundary BY <1>2 DEF Controller, Boundary
<1>3. CASE Controller /\ TransferDone BY <1>3 DEF Controller, TransferDone
<1>4. CASE Controller /\ ControllerError BY <1>4 DEF Controller, ControllerError
<1>5. CASE CardEvent BY <1>5 DEF CardEvent
<1>6. CASE IrqStatus BY <1>6 DEF IrqStatus, Pending
<1>7. CASE IrqAck BY <1>7 DEF IrqAck, Acked
<1>8. CASE IrqError BY <1>8 DEF IrqError, SoftReset, Quiet, NoCmd
<1>9. CASE IrqErrorAck BY <1>9 DEF IrqErrorAck
<1>10. CASE IrqFinish BY <1>10 DEF IrqFinish
<1>11. CASE ExecCommand BY <1>11 DEF ExecCommand, Cleared
<1>12. CASE StartCommand BY <1>12 DEF StartCommand, Inhibited
<1>13. CASE Poll BY <1>13 DEF Poll, Mask
<1>14. CASE LoadIntr BY <1>14 DEF LoadIntr
<1>15. CASE StoreIntr BY <1>15 DEF StoreIntr
<1>16. CASE WaitEnd BY <1>16 DEF WaitEnd, SoftReset, Quiet, NoCmd, Failing, Unfinished
<1>17. CASE DmaRestart BY <1>17 DEF DmaRestart
<1>18. CASE Return BY <1>18 DEF Return
<1>19. CASE Discover BY <1>19 DEF Discover
<1>20. CASE SignalOff BY <1>20 DEF SignalOff
<1>21. CASE ResetAll BY <1>21 DEF ResetAll, Quiet, NoCmd
<1>22. CASE EnableStatus BY <1>22 DEF EnableStatus
<1>23. CASE EnableSignals BY <1>23 DEF EnableSignals, AllOn
<1>24. CASE CardDetect BY <1>24 DEF CardDetect
<1>25. CASE UNCHANGED vars BY <1>25 DEF vars
<1> QED
  BY <1>1, <1>2, <1>3, <1>4, <1>5, <1>6, <1>7, <1>8, <1>9, <1>10, <1>11,
     <1>12, <1>13, <1>14, <1>15, <1>16, <1>17, <1>18, <1>19, <1>20, <1>21,
     <1>22, <1>23, <1>24, <1>25 DEF Next, Controller, Irq, MainStep

\* Without NINTR_SIGNAL_EN the handler runs for errors alone.
LEMMA StepDeaf ==
  ASSUME TypeOK, Switches, Handler, Deaf, [Next]_vars
  PROVE  Deaf'
<1> USE DEF TypeOK, Cmds, Phases, Bits, CmdBits, MainPcs, Discovering,
     Switches, Handler, Off, ErrorsOn, Deaf, Failing, Mask, Pending, Raise,
     Phase, Main, Goto, Rest, Line, hwVars, mainVars, irqVars, history
<1>1. CASE Controller /\ CommandDone BY <1>1 DEF Controller, CommandDone
<1>2. CASE Controller /\ Boundary BY <1>2 DEF Controller, Boundary
<1>3. CASE Controller /\ TransferDone BY <1>3 DEF Controller, TransferDone
<1>4. CASE Controller /\ ControllerError BY <1>4 DEF Controller, ControllerError
<1>5. CASE CardEvent BY <1>5 DEF CardEvent
<1>6. CASE IrqStatus BY <1>6 DEF IrqStatus, Pending
<1>7. CASE IrqAck BY <1>7 DEF IrqAck, Acked
<1>8. CASE IrqError BY <1>8 DEF IrqError, SoftReset, Quiet, NoCmd
<1>9. CASE IrqErrorAck BY <1>9 DEF IrqErrorAck
<1>10. CASE IrqFinish BY <1>10 DEF IrqFinish
<1>11. CASE ExecCommand BY <1>11 DEF ExecCommand, Cleared
<1>12. CASE StartCommand BY <1>12 DEF StartCommand, Inhibited
<1>13. CASE Poll BY <1>13 DEF Poll, Mask
<1>14. CASE LoadIntr BY <1>14 DEF LoadIntr
<1>15. CASE StoreIntr BY <1>15 DEF StoreIntr
<1>16. CASE WaitEnd BY <1>16 DEF WaitEnd, SoftReset, Quiet, NoCmd, Failing, Unfinished
<1>17. CASE DmaRestart BY <1>17 DEF DmaRestart
<1>18. CASE Return BY <1>18 DEF Return
<1>19. CASE Discover BY <1>19 DEF Discover
<1>20. CASE SignalOff BY <1>20 DEF SignalOff
<1>21. CASE ResetAll BY <1>21 DEF ResetAll, Quiet, NoCmd
<1>22. CASE EnableStatus BY <1>22 DEF EnableStatus
<1>23. CASE EnableSignals BY <1>23 DEF EnableSignals, AllOn
<1>24. CASE CardDetect BY <1>24 DEF CardDetect
<1>25. CASE UNCHANGED vars BY <1>25 DEF vars
<1> QED
  BY <1>1, <1>2, <1>3, <1>4, <1>5, <1>6, <1>7, <1>8, <1>9, <1>10, <1>11,
     <1>12, <1>13, <1>14, <1>15, <1>16, <1>17, <1>18, <1>19, <1>20, <1>21,
     <1>22, <1>23, <1>24, <1>25 DEF Next, Controller, Irq, MainStep

\* Between the clearing of intr_status and the start of the command nothing of
\* an earlier command comes in.
LEMMA StepFresh ==
  ASSUME TypeOK, Switches, Handler, Numbers, Fresh, [Next]_vars
  PROVE  Fresh'
<1> USE DEF TypeOK, Cmds, Phases, Bits, CmdBits, MainPcs, Discovering,
     Switches, Handler, Off, ErrorsOn, Fresh, Listening, Numbers, Running,
     Unfinished, Raise, Phase, Main, Goto, Rest, Line, hwVars, mainVars,
     irqVars, history
<1>1. CASE Controller /\ CommandDone BY <1>1 DEF Controller, CommandDone
<1>2. CASE Controller /\ Boundary BY <1>2 DEF Controller, Boundary
<1>3. CASE Controller /\ TransferDone BY <1>3 DEF Controller, TransferDone
<1>4. CASE Controller /\ ControllerError BY <1>4 DEF Controller, ControllerError
<1>5. CASE CardEvent BY <1>5 DEF CardEvent
<1>6. CASE IrqStatus BY <1>6 DEF IrqStatus, Pending
<1>7. CASE IrqAck BY <1>7 DEF IrqAck, Acked
<1>8. CASE IrqError BY <1>8 DEF IrqError, SoftReset, Quiet, NoCmd
<1>9. CASE IrqErrorAck BY <1>9 DEF IrqErrorAck
<1>10. CASE IrqFinish BY <1>10 DEF IrqFinish
<1>11. CASE ExecCommand BY <1>11 DEF ExecCommand, Cleared
<1>12. CASE StartCommand BY <1>12 DEF StartCommand, Inhibited
<1>13. CASE Poll BY <1>13 DEF Poll, Mask
<1>14. CASE LoadIntr BY <1>14 DEF LoadIntr
<1>15. CASE StoreIntr BY <1>15 DEF StoreIntr
<1>16. CASE WaitEnd BY <1>16 DEF WaitEnd, SoftReset, Quiet, NoCmd, Failing, Unfinished
<1>17. CASE DmaRestart BY <1>17 DEF DmaRestart
<1>18. CASE Return BY <1>18 DEF Return
<1>19. CASE Discover BY <1>19 DEF Discover
<1>20. CASE SignalOff BY <1>20 DEF SignalOff
<1>21. CASE ResetAll BY <1>21 DEF ResetAll, Quiet, NoCmd
<1>22. CASE EnableStatus BY <1>22 DEF EnableStatus
<1>23. CASE EnableSignals BY <1>23 DEF EnableSignals, AllOn
<1>24. CASE CardDetect BY <1>24 DEF CardDetect
<1>25. CASE UNCHANGED vars BY <1>25 DEF vars
<1> QED
  BY <1>1, <1>2, <1>3, <1>4, <1>5, <1>6, <1>7, <1>8, <1>9, <1>10, <1>11,
     <1>12, <1>13, <1>14, <1>15, <1>16, <1>17, <1>18, <1>19, <1>20, <1>21,
     <1>22, <1>23, <1>24, <1>25 DEF Next, Controller, Irq, MainStep

\* Each bit is carried from the register to the handler's copy, to intr_status,
\* to the copy of the loop, and the error with it.
LEMMA StepEvidence ==
  ASSUME TypeOK, Switches, Handler, Numbers, Deaf, Fresh, Taken, Evidence, [Next]_vars
  PROVE  Evidence'
<1> USE DEF TypeOK, Cmds, Phases, Bits, CmdBits, MainPcs, Discovering,
     Switches, Handler, Off, ErrorsOn, Evidence, Ended, Fresh, Taken,
     Listening, Numbers, Running, Unfinished, Pending, Mask, Raise, Phase,
     Main, Goto, Rest, Line, hwVars, mainVars, irqVars, history
<1>1. CASE Controller /\ CommandDone BY <1>1 DEF Controller, CommandDone
<1>2. CASE Controller /\ Boundary BY <1>2 DEF Controller, Boundary
<1>3. CASE Controller /\ TransferDone BY <1>3 DEF Controller, TransferDone
<1>4. CASE Controller /\ ControllerError BY <1>4 DEF Controller, ControllerError
<1>5. CASE CardEvent BY <1>5 DEF CardEvent
<1>6. CASE IrqStatus BY <1>6 DEF IrqStatus, Pending
<1>7. CASE IrqAck BY <1>7 DEF IrqAck, Acked
<1>8. CASE IrqError BY <1>8 DEF IrqError, SoftReset, Quiet, NoCmd
<1>9. CASE IrqErrorAck BY <1>9 DEF IrqErrorAck
<1>10. CASE IrqFinish BY <1>10 DEF IrqFinish
<1>11. CASE ExecCommand BY <1>11 DEF ExecCommand, Cleared
<1>12. CASE StartCommand BY <1>12 DEF StartCommand, Inhibited
<1>13. CASE Poll BY <1>13 DEF Poll, Mask
<1>14. CASE LoadIntr BY <1>14 DEF LoadIntr
<1>15. CASE StoreIntr BY <1>15 DEF StoreIntr
<1>16. CASE WaitEnd BY <1>16 DEF WaitEnd, SoftReset, Quiet, NoCmd, Failing, Unfinished
<1>17. CASE DmaRestart BY <1>17 DEF DmaRestart
<1>18. CASE Return BY <1>18 DEF Return
<1>19. CASE Discover BY <1>19 DEF Discover
<1>20. CASE SignalOff BY <1>20 DEF SignalOff
<1>21. CASE ResetAll BY <1>21 DEF ResetAll, Quiet, NoCmd
<1>22. CASE EnableStatus BY <1>22 DEF EnableStatus
<1>23. CASE EnableSignals BY <1>23 DEF EnableSignals, AllOn
<1>24. CASE CardDetect BY <1>24 DEF CardDetect
<1>25. CASE UNCHANGED vars BY <1>25 DEF vars
<1> QED
  BY <1>1, <1>2, <1>3, <1>4, <1>5, <1>6, <1>7, <1>8, <1>9, <1>10, <1>11,
     <1>12, <1>13, <1>14, <1>15, <1>16, <1>17, <1>18, <1>19, <1>20, <1>21,
     <1>22, <1>23, <1>24, <1>25 DEF Next, Controller, Irq, MainStep

\* The loop of sdhc_wait_intr sees COMMAND_COMPLETE first and then no more.
LEMMA StepStages ==
  ASSUME TypeOK, Switches, Handler, Numbers, Deaf, Fresh, Taken, Once, Stages, [Next]_vars
  PROVE  Stages'
<1> USE DEF TypeOK, Cmds, Phases, Bits, CmdBits, MainPcs, Discovering,
     Switches, Handler, Off, ErrorsOn, Stages, Once, Ahead, Fresh, Taken,
     Listening, Numbers, Running, Unfinished, Pending, Mask, Raise, Phase,
     Main, Goto, Rest, Line, hwVars, mainVars, irqVars, history
<1>1. CASE Controller /\ CommandDone BY <1>1 DEF Controller, CommandDone
<1>2. CASE Controller /\ Boundary BY <1>2 DEF Controller, Boundary
<1>3. CASE Controller /\ TransferDone BY <1>3 DEF Controller, TransferDone
<1>4. CASE Controller /\ ControllerError BY <1>4 DEF Controller, ControllerError
<1>5. CASE CardEvent BY <1>5 DEF CardEvent
<1>6. CASE IrqStatus BY <1>6 DEF IrqStatus, Pending
<1>7. CASE IrqAck BY <1>7 DEF IrqAck, Acked
<1>8. CASE IrqError BY <1>8 DEF IrqError, SoftReset, Quiet, NoCmd
<1>9. CASE IrqErrorAck BY <1>9 DEF IrqErrorAck
<1>10. CASE IrqFinish BY <1>10 DEF IrqFinish
<1>11. CASE ExecCommand BY <1>11 DEF ExecCommand, Cleared
<1>12. CASE StartCommand BY <1>12 DEF StartCommand, Inhibited
<1>13. CASE Poll BY <1>13 DEF Poll, Mask
<1>14. CASE LoadIntr BY <1>14 DEF LoadIntr
<1>15. CASE StoreIntr BY <1>15 DEF StoreIntr
<1>16. CASE WaitEnd BY <1>16 DEF WaitEnd, SoftReset, Quiet, NoCmd, Failing, Unfinished
<1>17. CASE DmaRestart BY <1>17 DEF DmaRestart
<1>18. CASE Return BY <1>18 DEF Return
<1>19. CASE Discover BY <1>19 DEF Discover
<1>20. CASE SignalOff BY <1>20 DEF SignalOff
<1>21. CASE ResetAll BY <1>21 DEF ResetAll, Quiet, NoCmd
<1>22. CASE EnableStatus BY <1>22 DEF EnableStatus
<1>23. CASE EnableSignals BY <1>23 DEF EnableSignals, AllOn
<1>24. CASE CardDetect BY <1>24 DEF CardDetect
<1>25. CASE UNCHANGED vars BY <1>25 DEF vars
<1> QED
  BY <1>1, <1>2, <1>3, <1>4, <1>5, <1>6, <1>7, <1>8, <1>9, <1>10, <1>11,
     <1>12, <1>13, <1>14, <1>15, <1>16, <1>17, <1>18, <1>19, <1>20, <1>21,
     <1>22, <1>23, <1>24, <1>25 DEF Next, Controller, Irq, MainStep

\* COMMAND_COMPLETE is in one place at a time.
LEMMA StepOnce ==
  ASSUME TypeOK, Switches, Handler, Numbers, Deaf, Fresh, Taken, Stages, Once, [Next]_vars
  PROVE  Once'
<1> USE DEF TypeOK, Cmds, Phases, Bits, CmdBits, MainPcs, Discovering,
     Switches, Handler, Off, ErrorsOn, Stages, Once, Ahead, Fresh, Taken,
     Listening, Numbers, Running, Unfinished, Pending, Mask, Raise, Phase,
     Main, Goto, Rest, Line, hwVars, mainVars, irqVars, history
<1>1. CASE Controller /\ CommandDone BY <1>1 DEF Controller, CommandDone
<1>2. CASE Controller /\ Boundary BY <1>2 DEF Controller, Boundary
<1>3. CASE Controller /\ TransferDone BY <1>3 DEF Controller, TransferDone
<1>4. CASE Controller /\ ControllerError BY <1>4 DEF Controller, ControllerError
<1>5. CASE CardEvent BY <1>5 DEF CardEvent
<1>6. CASE IrqStatus BY <1>6 DEF IrqStatus, Pending
<1>7. CASE IrqAck BY <1>7 DEF IrqAck, Acked
<1>8. CASE IrqError BY <1>8 DEF IrqError, SoftReset, Quiet, NoCmd
<1>9. CASE IrqErrorAck BY <1>9 DEF IrqErrorAck
<1>10. CASE IrqFinish BY <1>10 DEF IrqFinish
<1>11. CASE ExecCommand BY <1>11 DEF ExecCommand, Cleared
<1>12. CASE StartCommand BY <1>12 DEF StartCommand, Inhibited
<1>13. CASE Poll BY <1>13 DEF Poll, Mask
<1>14. CASE LoadIntr BY <1>14 DEF LoadIntr
<1>15. CASE StoreIntr BY <1>15 DEF StoreIntr
<1>16. CASE WaitEnd BY <1>16 DEF WaitEnd, SoftReset, Quiet, NoCmd, Failing, Unfinished
<1>17. CASE DmaRestart BY <1>17 DEF DmaRestart
<1>18. CASE Return BY <1>18 DEF Return
<1>19. CASE Discover BY <1>19 DEF Discover
<1>20. CASE SignalOff BY <1>20 DEF SignalOff
<1>21. CASE ResetAll BY <1>21 DEF ResetAll, Quiet, NoCmd
<1>22. CASE EnableStatus BY <1>22 DEF EnableStatus
<1>23. CASE EnableSignals BY <1>23 DEF EnableSignals, AllOn
<1>24. CASE CardDetect BY <1>24 DEF CardDetect
<1>25. CASE UNCHANGED vars BY <1>25 DEF vars
<1> QED
  BY <1>1, <1>2, <1>3, <1>4, <1>5, <1>6, <1>7, <1>8, <1>9, <1>10, <1>11,
     <1>12, <1>13, <1>14, <1>15, <1>16, <1>17, <1>18, <1>19, <1>20, <1>21,
     <1>22, <1>23, <1>24, <1>25 DEF Next, Controller, Irq, MainStep

\* A poll that found something took something, unless it was a card's bit.
LEMMA StepTaken ==
  ASSUME TypeOK, Switches, Handler, Deaf, Stages, Taken, [Next]_vars
  PROVE  Taken'
<1> USE DEF TypeOK, Cmds, Phases, Bits, CmdBits, MainPcs, Discovering,
     Switches, Handler, Off, ErrorsOn, Stages, Ahead, Taken, Deaf, Listening,
     Running, Pending, Mask, Failing, Raise, Phase, Main, Goto, Rest, Line,
     hwVars, mainVars, irqVars, history
<1>1. CASE Controller /\ CommandDone BY <1>1 DEF Controller, CommandDone
<1>2. CASE Controller /\ Boundary BY <1>2 DEF Controller, Boundary
<1>3. CASE Controller /\ TransferDone BY <1>3 DEF Controller, TransferDone
<1>4. CASE Controller /\ ControllerError BY <1>4 DEF Controller, ControllerError
<1>5. CASE CardEvent BY <1>5 DEF CardEvent
<1>6. CASE IrqStatus BY <1>6 DEF IrqStatus, Pending
<1>7. CASE IrqAck BY <1>7 DEF IrqAck, Acked
<1>8. CASE IrqError BY <1>8 DEF IrqError, SoftReset, Quiet, NoCmd
<1>9. CASE IrqErrorAck BY <1>9 DEF IrqErrorAck
<1>10. CASE IrqFinish BY <1>10 DEF IrqFinish
<1>11. CASE ExecCommand BY <1>11 DEF ExecCommand, Cleared
<1>12. CASE StartCommand BY <1>12 DEF StartCommand, Inhibited
<1>13. CASE Poll
  <2>1. /\ pc = "poll" /\ pc' = "load" /\ UNCHANGED <<intr, reg, for, gaveUp, enabled>>
        /\ status' = IF intr # {} THEN intr \cap (for \cup {"ERROR"}) ELSE {"TIMEOUT"}
        /\ (enabled.nsig => nintr = {}) /\ irqStatus = {} /\ reg = {}
    BY <1>13 DEF Poll, Line
  <2>2. ASSUME Listening, status' = {} PROVE "card" \in intr
    <3>1. PICK x \in intr : TRUE
      BY <2>1, <2>2
    <3>2. /\ x \in {"CC", "TC", "DMA", "card", "ERROR"} /\ x \notin for
          /\ "ERROR" \notin intr /\ ("CC" \in for => "CC" \notin intr)
      BY <2>1, <2>2, <3>1
    <3> QED
      BY <2>1, <2>2, <3>1, <3>2
  <2> QED
    BY <2>1, <2>2
<1>14. CASE LoadIntr BY <1>14 DEF LoadIntr
<1>15. CASE StoreIntr BY <1>15 DEF StoreIntr
<1>16. CASE WaitEnd BY <1>16 DEF WaitEnd, SoftReset, Quiet, NoCmd, Failing, Unfinished
<1>17. CASE DmaRestart BY <1>17 DEF DmaRestart
<1>18. CASE Return BY <1>18 DEF Return
<1>19. CASE Discover BY <1>19 DEF Discover
<1>20. CASE SignalOff BY <1>20 DEF SignalOff
<1>21. CASE ResetAll BY <1>21 DEF ResetAll, Quiet, NoCmd
<1>22. CASE EnableStatus BY <1>22 DEF EnableStatus
<1>23. CASE EnableSignals BY <1>23 DEF EnableSignals, AllOn
<1>24. CASE CardDetect BY <1>24 DEF CardDetect
<1>25. CASE UNCHANGED vars BY <1>25 DEF vars
<1> QED
  BY <1>1, <1>2, <1>3, <1>4, <1>5, <1>6, <1>7, <1>8, <1>9, <1>10, <1>11,
     <1>12, <1>13, <1>14, <1>15, <1>16, <1>17, <1>18, <1>19, <1>20, <1>21,
     <1>22, <1>23, <1>24, <1>25 DEF Next, Controller, Irq, MainStep

\* Only the end of a wait leads to success, with evidence.
LEMMA StepSuccessIsOwn ==
  ASSUME TypeOK, Numbers, Deaf, Evidence, SuccessIsOwn, [Next]_vars
  PROVE  SuccessIsOwn'
<1> USE DEF TypeOK, Cmds, Phases, Bits, CmdBits, MainPcs, Discovering,
     SuccessIsOwn, Evidence, Ended, Deaf, Numbers, Listening, Running,
     Unfinished, Failing, Raise, Phase, Main, Goto, Rest, Line, hwVars,
     mainVars, irqVars, history
<1>1. CASE Controller /\ CommandDone BY <1>1 DEF Controller, CommandDone
<1>2. CASE Controller /\ Boundary BY <1>2 DEF Controller, Boundary
<1>3. CASE Controller /\ TransferDone BY <1>3 DEF Controller, TransferDone
<1>4. CASE Controller /\ ControllerError BY <1>4 DEF Controller, ControllerError
<1>5. CASE CardEvent BY <1>5 DEF CardEvent
<1>6. CASE IrqStatus BY <1>6 DEF IrqStatus, Pending
<1>7. CASE IrqAck BY <1>7 DEF IrqAck, Acked
<1>8. CASE IrqError BY <1>8 DEF IrqError, SoftReset, Quiet, NoCmd
<1>9. CASE IrqErrorAck BY <1>9 DEF IrqErrorAck
<1>10. CASE IrqFinish BY <1>10 DEF IrqFinish
<1>11. CASE ExecCommand BY <1>11 DEF ExecCommand, Cleared
<1>12. CASE StartCommand BY <1>12 DEF StartCommand, Inhibited
<1>13. CASE Poll BY <1>13 DEF Poll, Mask
<1>14. CASE LoadIntr BY <1>14 DEF LoadIntr
<1>15. CASE StoreIntr BY <1>15 DEF StoreIntr
<1>16. CASE WaitEnd BY <1>16 DEF WaitEnd, SoftReset, Quiet, NoCmd, Failing, Unfinished
<1>17. CASE DmaRestart BY <1>17 DEF DmaRestart
<1>18. CASE Return BY <1>18 DEF Return
<1>19. CASE Discover BY <1>19 DEF Discover
<1>20. CASE SignalOff BY <1>20 DEF SignalOff
<1>21. CASE ResetAll BY <1>21 DEF ResetAll, Quiet, NoCmd
<1>22. CASE EnableStatus BY <1>22 DEF EnableStatus
<1>23. CASE EnableSignals BY <1>23 DEF EnableSignals, AllOn
<1>24. CASE CardDetect BY <1>24 DEF CardDetect
<1>25. CASE UNCHANGED vars BY <1>25 DEF vars
<1> QED
  BY <1>1, <1>2, <1>3, <1>4, <1>5, <1>6, <1>7, <1>8, <1>9, <1>10, <1>11,
     <1>12, <1>13, <1>14, <1>15, <1>16, <1>17, <1>18, <1>19, <1>20, <1>21,
     <1>22, <1>23, <1>24, <1>25 DEF Next, Controller, Irq, MainStep

\* What the driver misses is on its way.
LEMMA StepCardNoticed ==
  ASSUME TypeOK, Switches, Handler, CardNoticed, [Next]_vars
  PROVE  CardNoticed'
<1> USE DEF TypeOK, Cmds, Phases, Bits, CmdBits, MainPcs, Discovering,
     Switches, Handler, Off, ErrorsOn, CardNoticed, Pending, Raise, Phase,
     Main, Goto, Rest, Line, hwVars, mainVars, irqVars, history
<1>1. CASE Controller /\ CommandDone BY <1>1 DEF Controller, CommandDone
<1>2. CASE Controller /\ Boundary BY <1>2 DEF Controller, Boundary
<1>3. CASE Controller /\ TransferDone BY <1>3 DEF Controller, TransferDone
<1>4. CASE Controller /\ ControllerError BY <1>4 DEF Controller, ControllerError
<1>5. CASE CardEvent BY <1>5 DEF CardEvent
<1>6. CASE IrqStatus BY <1>6 DEF IrqStatus, Pending
<1>7. CASE IrqAck BY <1>7 DEF IrqAck, Acked
<1>8. CASE IrqError BY <1>8 DEF IrqError, SoftReset, Quiet, NoCmd
<1>9. CASE IrqErrorAck BY <1>9 DEF IrqErrorAck
<1>10. CASE IrqFinish BY <1>10 DEF IrqFinish
<1>11. CASE ExecCommand BY <1>11 DEF ExecCommand, Cleared
<1>12. CASE StartCommand BY <1>12 DEF StartCommand, Inhibited
<1>13. CASE Poll BY <1>13 DEF Poll, Mask
<1>14. CASE LoadIntr BY <1>14 DEF LoadIntr
<1>15. CASE StoreIntr BY <1>15 DEF StoreIntr
<1>16. CASE WaitEnd BY <1>16 DEF WaitEnd, SoftReset, Quiet, NoCmd, Failing, Unfinished
<1>17. CASE DmaRestart BY <1>17 DEF DmaRestart
<1>18. CASE Return BY <1>18 DEF Return
<1>19. CASE Discover BY <1>19 DEF Discover
<1>20. CASE SignalOff BY <1>20 DEF SignalOff
<1>21. CASE ResetAll BY <1>21 DEF ResetAll, Quiet, NoCmd
<1>22. CASE EnableStatus BY <1>22 DEF EnableStatus
<1>23. CASE EnableSignals BY <1>23 DEF EnableSignals, AllOn
<1>24. CASE CardDetect BY <1>24 DEF CardDetect
<1>25. CASE UNCHANGED vars BY <1>25 DEF vars
<1> QED
  BY <1>1, <1>2, <1>3, <1>4, <1>5, <1>6, <1>7, <1>8, <1>9, <1>10, <1>11,
     <1>12, <1>13, <1>14, <1>15, <1>16, <1>17, <1>18, <1>19, <1>20, <1>21,
     <1>22, <1>23, <1>24, <1>25 DEF Next, Controller, Irq, MainStep

LEMMA StepInv == IInv /\ [Next]_vars => IInv'
BY StepTyped, StepSwitches, StepHandler, StepCounted, StepNumbers, StepDeaf,
   StepFresh, StepEvidence, StepStages, StepOnce, StepTaken, StepSuccessIsOwn,
   StepCardNoticed DEF IInv, Protocol

-----------------------------------------------------------------------------
\* All of the above holds at all times.
THEOREM SdhcInvariance == Spec => []IInv
BY InitInv, StepInv, PTL DEF Spec

\* The types of sdhc_host, the command and the registers; no more discover
\* requests are queued than there were card events.
THEOREM SdhcTyped == Spec => []TypeOK
<1>1. IInv => TypeOK
  BY DEF IInv
<1> QED
  BY <1>1, SdhcInvariance, PTL

\* Success is the success of that very command (sdhc.c:435, 453, 611), for any
\* number of commands and whatever the card and the controller do meanwhile.
THEOREM OwnSuccess == Spec => []SuccessIsOwn
<1>1. IInv => SuccessIsOwn
  BY DEF IInv
<1> QED
  BY <1>1, SdhcInvariance, PTL

\* Main context and handler leave every interrupt on (sdhc.c:243-269, 765-776).
THEOREM InterruptsArmed == Spec => []Armed
<1>1. IInv => Armed
  <2> SUFFICES ASSUME IInv, ~Resetting, irq = "none", ~resetFailed PROVE enabled = AllOn
    BY DEF Armed
  <2>1. enabled \in OnType
    BY DEF IInv, TypeOK, OnType
  <2>2. enabled.status /\ enabled.nsig /\ enabled.esig
    BY DEF IInv, Switches, ErrorsOn, Resetting, Off, Discovering
  <2> QED
    BY <2>1, <2>2 DEF OnType, AllOn
<1> QED
  BY <1>1, SdhcInvariance, PTL

\* A change of the card is on its way to the driver until it looks, or was wiped
\* by a reset or by the acknowledgement of an error (sdhc.c:748-755, 788-793).
THEOREM CardsNoticed == Spec => []CardNoticed
<1>1. IInv => CardNoticed
  BY DEF IInv
<1> QED
  BY <1>1, SdhcInvariance, PTL

\* The error that sdhc_intr reads is never there: the write that acknowledges
\* NINTR_STATUS has cleared EINTR_STATUS, so that intr_error_status is never set
\* and a failed command whose bits hold nothing else ends by its time
\* (sdhc.c:755, 764, 783-787).
THEOREM ErrorNeverRead == Spec => [](~irqError)
<1>1. IInv => ~irqError
  BY DEF IInv, Handler
<1> QED
  BY <1>1, SdhcInvariance, PTL

\* A wait fails only for a reason (sdhc.c:698-700, 802).
THEOREM FailuresCaused == Spec => FailureHasCause
<1>1. ASSUME IInv, [Next]_vars, pc = "end", pc' = "failed"
      PROVE  status \cap {"TIMEOUT", "ERROR"} # {} \/ "card" \in intr \/ gaveUp
  <2>1. WaitEnd
    BY <1>1 DEF Next, Controller, CommandDone, Boundary, TransferDone,
       ControllerError, CardEvent,
       Irq, IrqStatus, IrqAck, IrqError, IrqErrorAck, IrqFinish, MainStep, ExecCommand,
       StartCommand, Poll, LoadIntr, StoreIntr, DmaRestart, Return, Discover, SignalOff,
       ResetAll, EnableStatus, EnableSignals, CardDetect, Main, Goto, vars, mainVars
  <2>2. Failing \/ status \cap for = {}
    BY <1>1, <2>1 DEF WaitEnd, Goto
  <2>3. CASE status = {}
    BY <1>1, <2>3 DEF IInv, Protocol, Taken, Listening, Deaf, Failing
  <2> QED
    BY <1>1, <2>2, <2>3 DEF IInv, Protocol, Taken, Failing
<1>2. IInv /\ [Next]_vars =>
        [pc = "end" /\ pc' = "failed" =>
           status \cap {"TIMEOUT", "ERROR"} # {} \/ "card" \in intr \/ gaveUp]_vars
  BY <1>1
<1> QED
  BY <1>2, SdhcInvariance, PTL DEF FailureHasCause, Spec
=============================================================================
