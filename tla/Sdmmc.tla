------------------------------- MODULE Sdmmc -------------------------------
(***************************************************************************)
(* The SD card layer (src/sdmmc.c), the disk glue (src/diskio.c) and the   *)
(* one decision FatFs takes from the disk's status: whether the volume it  *)
(* mounted is still the one in the slot (auto_mount of src/ff.c).         *)
(*                                                                         *)
(* All of it runs in the main context, one request after the other; the    *)
(* user's hand on the card moves between any two commands.  A command is   *)
(* one call of sdhc_exec_command (module Sdhc): it succeeds only if the    *)
(* card is in a state that accepts it, and may fail whatever the card did. *)
(***************************************************************************)
EXTENDS Integers

CONSTANTS Cards,      \* the cards the user has
          HighCap,    \* those addressed by blocks (SDHC)
          NoCard,
          MaxEvents,  \* insertions and removals
          MaxTries    \* rounds of SD_APP_OP_COND, 100 in the code

ASSUME CardsAssumption == HighCap \subseteq Cards /\ NoCard \notin Cards
ASSUME BoundsAssumption == MaxEvents \in Nat /\ MaxTries \in Nat \ {0}

CardStates == {"off", "idle", "ready", "ident", "stby", "tran"}
Steps == {"idle", "reset", "power", "go_idle", "if_cond", "op_cond", "cid", "rca",
          "csd", "select", "blocklen", "off", "data"}
Users == {"none", "ppc", "mount", "fs"}

VARIABLES slot,      \* the card in the slot
          state,     \* its state, as it sees the bus
          power,     \* the bus power
          events,    \* insertions and removals so far
          queued,    \* IPC_SDHC_DISCOVER requests in the slow queue
          card,      \* struct sdmmc_card; cid and size name the card they describe
          pc, hcs, tries,   \* sdmmc_needs_discover, its ocr and its counter
          user,      \* for whom the data command runs
          volume,    \* FatFs: the card whose layout is mounted
          \* History: the card that was identified when the client last
          \* acknowledged; the last discovery did not get through; a card event
          \* fell into a reset; the last data command that succeeded.
          acked, broken, lost, served

slotVars == <<slot, state, power, events, queued>>
discVars == <<pc, hcs, tries>>
vars == <<slotVars, card, discVars, user, volume, acked, broken, lost, served>>

NoAccess == [by |-> "none", card |-> NoCard, acked |-> NoCard, layout |-> NoCard,
             high |-> FALSE]
Blank == [inserted |-> FALSE, selected |-> FALSE, new |-> FALSE, high |-> FALSE,
          cid |-> NoCard, size |-> NoCard]

\* sdmmc_attach starts the discovery if it finds a card.
Init ==
  /\ slot \in Cards \cup {NoCard} /\ state = "off" /\ power = FALSE
  /\ events = 0 /\ queued = 0
  /\ card = Blank
  /\ pc = IF slot = NoCard THEN "idle" ELSE "reset"
  /\ hcs = FALSE /\ tries = 0
  /\ user = "none" /\ volume = NoCard
  /\ acked = NoCard /\ broken = FALSE /\ lost = FALSE /\ served = NoAccess

(***************************************************************************)
(* The slot.  A card that is pushed in answers nothing until it is reset.  *)
(***************************************************************************)
MoveCard ==
  /\ events < MaxEvents /\ events' = events + 1
  /\ slot' \in IF slot = NoCard THEN Cards ELSE {NoCard}
  /\ state' = IF slot = NoCard /\ power THEN "idle" ELSE "off"

CardEvent_removal ==
  /\ MoveCard /\ queued' = IF slot = NoCard THEN queued ELSE queued + 1
  /\ UNCHANGED <<power, card, discVars, user, volume, acked, broken, lost, served>>

\* The interrupt handler queues a discovery for each event (sdhc.c:789).
CardEvent ==
  /\ MoveCard /\ queued' = queued + 1
  /\ UNCHANGED <<power, card, discVars, user, volume, acked, broken, lost, served>>

(***************************************************************************)
(* One command: it works if the card is in a state of "from"; it may be    *)
(* reported as failed whether or not the card carried it out.              *)
(***************************************************************************)
Works(from, to) == /\ slot # NoCard /\ power /\ state \in from
                   /\ state' = to
Fails(from, to) == UNCHANGED state \/ Works(from, to)

At(step) == pc = step /\ UNCHANGED <<slot, events, user, volume, acked, lost, served>>
Goto(step) == pc' = step

(***************************************************************************)
(* sdmmc_needs_discover, a command per action.                             *)
(***************************************************************************)
\* ipc_process_slow takes the request from the queue.
Discover ==
  /\ At("idle") /\ queued > 0 /\ queued' = queued - 1
  /\ Goto("reset")
  /\ UNCHANGED <<state, power, card, hcs, tries, broken>>

\* sdhc_host_reset leaves the bus without power; what it wipes of card events
\* does no harm here, sdhc_card_detect looks afterwards.
NeedsDiscover_stale ==
  /\ At("reset")
  /\ power' = FALSE /\ state' = "off" /\ broken' = FALSE
  /\ card' = [card EXCEPT !.new = TRUE]
  /\ IF slot = NoCard THEN Goto("idle") ELSE Goto("power")
  /\ UNCHANGED <<queued, hcs, tries>>
NeedsDiscover ==
  /\ At("reset")
  /\ power' = FALSE /\ state' = "off" /\ broken' = FALSE
  /\ IF slot = NoCard
     THEN /\ card' = [card EXCEPT !.new = TRUE, !.inserted = FALSE]
          /\ Goto("idle")
     ELSE /\ card' = [card EXCEPT !.new = TRUE]
          /\ Goto("power")
  /\ UNCHANGED <<queued, hcs, tries>>

\* sdhc_bus_power(1): the bit is cleared and set; the controller may clear it again.
BusPower(raised) == power' = raised

\* sdhc_bus_clock: the internal clock becomes stable within its 1000 polls or not.
\* A divisor is always found: sdhc_host_found accepts bases of 10 to 63 MHz only,
\* for a clock of 25 MHz.
BusClock(stable) == IF stable THEN Goto("go_idle") ELSE Goto("off")

\* No power is "goto out", no clock is "goto out_power".
PowerUp ==
  /\ At("power") /\ UNCHANGED <<queued, state, card, hcs, tries>>
  /\ \/ /\ BusPower(TRUE) /\ UNCHANGED broken
        /\ \E stable \in BOOLEAN : BusClock(stable)
     \/ BusPower(FALSE) /\ Goto("idle") /\ broken' = TRUE

\* MMC_GO_IDLE_STATE has no response: it completes even if no card hears it.
GoIdle ==
  /\ At("go_idle") /\ UNCHANGED <<queued, power, card, hcs, tries, broken>>
  /\ state' = IF slot = NoCard THEN "off" ELSE "idle"
  /\ Goto("if_cond") \/ Goto("off")

\* SD_SEND_IF_COND: only a card that answers is offered high capacity.
SendIfCond ==
  /\ At("if_cond") /\ UNCHANGED <<queued, power, state, card, broken>>
  /\ (hcs' = TRUE /\ slot # NoCard /\ state = "idle") \/ hcs' = FALSE
  /\ tries' = MaxTries /\ Goto("op_cond")

\* MMC_APP_CMD and SD_APP_OP_COND.  The card becomes ready or needs more time;
\* if it never does, or no round gets through, the discovery ends.
LastTry_late == tries = 0
LastTry == tries = 1

AppOpCond ==
  /\ At("op_cond") /\ UNCHANGED <<queued, power, hcs, broken>>
  /\ \/ /\ Works({"idle"}, "ready") /\ (slot \in HighCap => hcs)
        /\ card' = [card EXCEPT !.high = (slot \in HighCap)]
        /\ Goto("cid") /\ UNCHANGED tries
     \/ /\ Fails({"idle"}, "ready") /\ UNCHANGED card
        /\ tries' = tries - 1
        /\ IF LastTry THEN Goto("off") ELSE Goto("op_cond")

AllSendCid ==
  /\ At("cid") /\ UNCHANGED <<queued, power, hcs, tries, broken>>
  /\ \/ /\ Works({"ready"}, "ident")
        /\ card' = [card EXCEPT !.cid = slot] /\ Goto("rca")
     \/ Fails({"ready"}, "ident") /\ UNCHANGED card /\ Goto("off")

SendRelativeAddr ==
  /\ At("rca") /\ UNCHANGED <<queued, power, hcs, tries, broken>>
  /\ \/ /\ Works({"ident"}, "stby")
        /\ card' = [card EXCEPT !.selected = FALSE, !.inserted = TRUE]
        /\ Goto("csd")
     \/ Fails({"ident"}, "stby") /\ UNCHANGED card /\ Goto("off")

\* Without the CSD the power goes off, but the card stays inserted.
SendCsd_unchecked ==
  /\ At("csd") /\ UNCHANGED <<queued, power, hcs, tries, broken>>
  /\ Goto("select")
  /\ \/ Works({"stby"}, "stby") /\ card' = [card EXCEPT !.size = slot]
     \/ Fails({"stby"}, "stby") /\ UNCHANGED card
SendCsd ==
  /\ At("csd") /\ UNCHANGED <<queued, power, hcs, tries, broken>>
  /\ \/ /\ Works({"stby"}, "stby")
        /\ card' = [card EXCEPT !.size = slot] /\ Goto("select")
     \/ Fails({"stby"}, "stby") /\ UNCHANGED card /\ Goto("off")

\* sdmmc_select; what it returns is not looked at here.
Selects == Works({"stby"}, "tran") /\ card' = [card EXCEPT !.selected = TRUE]
SelectFails == Fails({"stby"}, "tran") /\ UNCHANGED card

Select ==
  /\ At("select") /\ UNCHANGED <<queued, power, hcs, tries, broken>>
  /\ Selects \/ SelectFails
  /\ Goto("blocklen")

SetBlocklen ==
  /\ At("blocklen") /\ UNCHANGED <<queued, power, hcs, tries, broken>>
  /\ \/ Works({"tran"}, "tran") /\ UNCHANGED card /\ Goto("idle")
     \/ /\ Fails({"tran"}, "tran") /\ Goto("off")
        /\ card' = [card EXCEPT !.inserted = FALSE, !.selected = FALSE]

\* out_clock and out_power: the power goes off and the controller is reset;
\* nobody looks at the slot after this reset, and it wipes the card event that
\* falls into it.
PowerOff ==
  /\ pc = "off" /\ Goto("idle") /\ broken' = TRUE /\ power' = FALSE
  /\ \/ UNCHANGED <<slot, events, lost>> /\ state' = "off"
     \/ MoveCard /\ lost' = TRUE
  /\ UNCHANGED <<queued, card, hcs, tries, user, volume, acked, served>>

(***************************************************************************)
(* Requests of the client and of FatFs.                                    *)
(***************************************************************************)
CheckCard == IF ~card.inserted THEN "NO_CARD"
             ELSE IF card.new THEN "NEW_CARD" ELSE "INSERTED"

\* card.cid is what the client can know of the card it accepts.
AckCard == IF card.new
           THEN card' = [card EXCEPT !.new = FALSE] /\ acked' = card.cid
           ELSE UNCHANGED <<card, acked>>

\* IPC_SDMMC_ACK
Ack ==
  /\ pc = "idle" /\ AckCard
  /\ UNCHANGED <<slotVars, discVars, user, volume, broken, lost, served>>

\* sdmmc_read and sdmmc_write up to their data command: c is the card as the
\* request finds it.
Refused_unacked(c) == ~c.inserted
Refused(c) == ~c.inserted \/ (c.selected /\ c.new)

Access(u, c) ==
  \/ /\ Refused(c) /\ card' = c /\ UNCHANGED <<state, pc, user>>
  \/ /\ ~Refused(c) /\ c.selected /\ card' = c /\ UNCHANGED state
     /\ Goto("data") /\ user' = u
  \/ /\ ~Refused(c) /\ ~c.selected
     /\ \/ /\ Works({"stby"}, "tran") /\ card' = [c EXCEPT !.selected = TRUE]
           /\ IF c.new THEN UNCHANGED <<pc, user>> ELSE (Goto("data") /\ user' = u)
        \/ Fails({"stby"}, "tran") /\ card' = c /\ UNCHANGED <<pc, user>>

\* IPC_SDMMC_READ, IPC_SDMMC_WRITE
Request ==
  /\ pc = "idle" /\ Access("ppc", card)
  /\ UNCHANGED <<slot, power, events, queued, hcs, tries, volume, acked, broken,
                 lost, served>>

DiskStatus == IF CheckCard = "INSERTED" THEN {} ELSE {"NODISK"}

\* auto_mount: a mounted volume whose disk is initialised is used as it is,
\* any other is mounted again, which acknowledges the card on the way.
FileOperation ==
  /\ pc = "idle"
  /\ \/ /\ volume # NoCard /\ "NOINIT" \notin DiskStatus
        /\ Access("fs", card) /\ UNCHANGED <<volume, acked>>
     \/ /\ volume = NoCard \/ "NOINIT" \in DiskStatus
        /\ volume' = NoCard
        /\ IF CheckCard = "NO_CARD"
           THEN UNCHANGED <<state, card, pc, user, acked>>
           ELSE /\ Access("mount", [card EXCEPT !.new = FALSE])
                /\ acked' = IF card.new THEN card.cid ELSE acked
  /\ UNCHANGED <<slot, power, events, queued, hcs, tries, broken, lost, served>>

\* MMC_READ_BLOCK_MULTIPLE, MMC_WRITE_BLOCK_MULTIPLE: the address is in blocks
\* or in bytes, as card.sdhc_blockmode says.
Data ==
  /\ pc = "data" /\ Goto("idle") /\ user' = "none"
  /\ \/ /\ Works({"tran"}, "tran")
        /\ served' = [by |-> user, card |-> slot, acked |-> acked,
                      layout |-> volume, high |-> card.high]
        /\ volume' = IF user = "mount" THEN slot ELSE volume
     \/ Fails({"tran"}, "tran") /\ UNCHANGED <<served, volume>>
  /\ UNCHANGED <<slot, power, events, queued, card, hcs, tries, acked, broken, lost>>

Discovery == NeedsDiscover \/ PowerUp \/ GoIdle \/ SendIfCond \/ AppOpCond
             \/ AllSendCid \/ SendRelativeAddr \/ SendCsd \/ Select \/ SetBlocklen
             \/ PowerOff

Next == CardEvent \/ Discover \/ Discovery \/ Ack \/ Request \/ FileOperation \/ Data

Spec == Init /\ [][Next]_vars

\* The main loop runs on, and its queue is first in, first out: a discovery is
\* not overtaken for ever.
FairSpec == Spec /\ WF_vars(Discovery \/ Data) /\ SF_vars(Discover)

(***************************************************************************)
(* Properties.                                                             *)
(***************************************************************************)
CardType == [inserted : BOOLEAN, selected : BOOLEAN, new : BOOLEAN, high : BOOLEAN,
             cid : Cards \cup {NoCard}, size : Cards \cup {NoCard}]

\* Every variable has its type.
TypeOK ==
  /\ slot \in Cards \cup {NoCard} /\ state \in CardStates /\ power \in BOOLEAN
  /\ events \in 0..MaxEvents /\ queued \in 0..MaxEvents
  /\ card \in CardType
  /\ pc \in Steps /\ hcs \in BOOLEAN /\ tries \in 0..MaxTries /\ user \in Users
  /\ volume \in Cards \cup {NoCard} /\ acked \in Cards \cup {NoCard}
  /\ broken \in BOOLEAN /\ lost \in BOOLEAN
  /\ served \in [by : Users, card : Cards \cup {NoCard}, acked : Cards \cup {NoCard},
                 layout : Cards \cup {NoCard}, high : BOOLEAN]

\* No data command ever reaches a card other than the one that was identified
\* when the client last acknowledged (the new_card check of sdmmc_read and
\* sdmmc_write), and the address is in the unit that card uses, however cards
\* are swapped between the commands.
AckedOnly == served.by # "none" => /\ served.card = served.acked
                                   /\ served.high = (served.card \in HighCap)

\* The size a client gets for a card it acknowledged is that card's, unless the
\* last discovery broke off (then sdmmc_get_sectors still has the one before).
SizeOfAcked == card.inserted /\ ~card.new /\ ~broken => card.size = acked

\* When every card event has been handled, and neither did the discovery break
\* off nor a reset wipe an event, struct sdmmc_card describes the slot: a card
\* is recorded if and only if there is one, it is this one, and a card recorded
\* as selected is selected.
Settled ==
  pc = "idle" /\ queued = 0 /\ ~broken /\ ~lost =>
    /\ card.inserted <=> slot # NoCard
    /\ card.inserted => /\ card.cid = slot /\ card.size = slot
                        /\ card.high = (slot \in HighCap)
    /\ card.inserted /\ card.selected => state = "tran"

\* A card that stays in the slot is identified in the end, unless its discovery
\* breaks off or its insertion was wiped.
CardIdentified ==
  \A c \in Cards : slot = c ~> (card.cid = c \/ slot # c \/ broken \/ lost)

\* ff.c:1389 on a mounted volume: "and physical drive is kept initialized (has
\* not been changed)".  A file operation reaches only the card whose layout is
\* mounted.
VolumeUnchanged == served.by = "fs" => served.card = served.layout
=============================================================================
