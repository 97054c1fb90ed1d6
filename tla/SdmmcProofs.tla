---------------------------- MODULE SdmmcProofs ----------------------------
(***************************************************************************)
(* No data command reaches a card the client did not acknowledge, and the  *)
(* size it is told is that card's: proofs for any set of cards, any number *)
(* of card events and of rounds, and any interleaving of the hand on the   *)
(* card with the commands.                                                 *)
(***************************************************************************)
EXTENDS Sdmmc, TLAPS

Discovering == pc \notin {"idle", "reset", "data"}

\* A discovery is queued for an event only, and a round is left in the loop.
Counters == queued <= events /\ (pc = "op_cond" => tries >= 1)

\* A card that has passed a command of the discovery is the one whose answer
\* the driver kept, except on the way to the power being switched off.
Identified ==
  pc # "off" =>
    /\ state = "ready" /\ pc # "op_cond" => card.high = (slot \in HighCap)
    /\ state \in {"ident", "stby", "tran"} => /\ card.cid = slot
                                              /\ card.high = (slot \in HighCap)

\* What is discovered is new; what is not new was acknowledged as identified.
Announced ==
  /\ Discovering => card.new
  /\ ~card.new => acked = card.cid
  /\ pc = "data" => ~card.new

\* Once the CSD was read it is that of the identified card; so it is afterwards
\* unless the discovery broke off.
SizeKnown ==
  /\ pc \in {"select", "blocklen"} => card.size = card.cid
  /\ ~Discovering /\ ~broken /\ card.inserted => card.size = card.cid

IInv == TypeOK /\ Counters /\ Identified /\ Announced /\ SizeKnown /\ AckedOnly

LEMMA InitInv == Init => IInv
<1> SUFFICES ASSUME Init PROVE IInv
  OBVIOUS
<1> USE DEF Init, Blank, NoAccess
<1>1. TypeOK
  <2>1. card \in CardType
    BY DEF CardType
  <2>2. /\ pc \in Steps /\ user \in Users /\ state \in CardStates
    BY DEF Steps, Users, CardStates
  <2>3. served \in [by : Users, card : Cards \cup {NoCard},
                    acked : Cards \cup {NoCard}, layout : Cards \cup {NoCard},
                    high : BOOLEAN]
    BY DEF Users
  <2>4. events \in 0..MaxEvents /\ queued \in 0..MaxEvents /\ tries \in 0..MaxTries
    BY BoundsAssumption
  <2> QED
    BY <2>1, <2>2, <2>3, <2>4 DEF TypeOK
<1>2. Counters /\ Identified /\ Announced /\ SizeKnown /\ AckedOnly
  BY DEF Counters, Identified, Announced, SizeKnown, AckedOnly, Discovering
<1> QED
  BY <1>1, <1>2 DEF IInv

LEMMA MoveTyped ==
  ASSUME TypeOK, MoveCard
  PROVE  /\ slot' \in Cards \cup {NoCard} /\ state' \in {"off", "idle"}
         /\ events' \in 0..MaxEvents /\ events' = events + 1
  BY BoundsAssumption DEF TypeOK, MoveCard

\* A command leaves the card in one of its states.
LEMMA CommandTyped ==
  ASSUME TypeOK, NEW from, NEW to \in CardStates, Works(from, to) \/ Fails(from, to)
  PROVE  state' \in CardStates
  BY DEF Works, Fails, TypeOK

\* The fields a step may write.
LEMMA CardTyped ==
  ASSUME TypeOK, NEW b \in BOOLEAN, NEW c \in Cards \cup {NoCard}
  PROVE  /\ [card EXCEPT !.new = b] \in CardType
         /\ [card EXCEPT !.new = TRUE, !.inserted = FALSE] \in CardType
         /\ [card EXCEPT !.high = b] \in CardType
         /\ [card EXCEPT !.cid = c] \in CardType
         /\ [card EXCEPT !.selected = FALSE, !.inserted = TRUE] \in CardType
         /\ [card EXCEPT !.size = c] \in CardType
         /\ [card EXCEPT !.selected = b] \in CardType
         /\ [card EXCEPT !.inserted = FALSE, !.selected = FALSE] \in CardType
  BY DEF TypeOK, CardType

LEMMA DiscoveryTyped == TypeOK /\ Counters /\ Discovery => TypeOK' /\ Counters'
<1> SUFFICES ASSUME TypeOK, Counters, Discovery PROVE TypeOK' /\ Counters'
  OBVIOUS
<1> USE BoundsAssumption
<1>a. pc' \in Steps
  BY DEF Discovery, NeedsDiscover, PowerUp, BusPower, BusClock, GoIdle, SendIfCond, AppOpCond, AllSendCid,
         SendRelativeAddr, SendCsd, Select, SetBlocklen, PowerOff, Goto, Steps
<1>b. card' \in CardType
  <2>1. (slot \in HighCap) \in BOOLEAN /\ slot \in Cards \cup {NoCard}
    BY DEF TypeOK
  <2> QED
    BY <2>1, CardTyped
    DEF Discovery, NeedsDiscover, PowerUp, BusPower, BusClock, GoIdle, SendIfCond, AppOpCond, AllSendCid,
        SendRelativeAddr, SendCsd, Select, Selects, SelectFails, SetBlocklen, PowerOff,
        TypeOK
<1>c. state' \in CardStates
  BY MoveTyped
  DEF Discovery, NeedsDiscover, PowerUp, BusPower, BusClock, GoIdle, SendIfCond, AppOpCond, AllSendCid,
      SendRelativeAddr, SendCsd, Select, Selects, SelectFails, SetBlocklen, PowerOff,
      TypeOK, Works, Fails, CardStates
<1>d. /\ slot' \in Cards \cup {NoCard} /\ events' \in 0..MaxEvents
      /\ events' >= events
  BY MoveTyped
  DEF Discovery, NeedsDiscover, PowerUp, BusPower, BusClock, GoIdle, SendIfCond, AppOpCond, AllSendCid,
      SendRelativeAddr, SendCsd, Select, SetBlocklen, PowerOff, At, TypeOK
<1>e. /\ power' \in BOOLEAN /\ hcs' \in BOOLEAN /\ broken' \in BOOLEAN
      /\ lost' \in BOOLEAN
      /\ UNCHANGED <<queued, user, volume, acked, served>>
  BY DEF Discovery, NeedsDiscover, PowerUp, BusPower, BusClock, GoIdle, SendIfCond, AppOpCond, AllSendCid,
         SendRelativeAddr, SendCsd, Select, SetBlocklen, PowerOff, At, TypeOK
<1>f. tries' \in 0..MaxTries /\ (pc' = "op_cond" => tries' >= 1)
  <2>1. CASE AppOpCond
    BY <2>1 DEF AppOpCond, LastTry, At, Goto, TypeOK, Counters
  <2>2. CASE ~AppOpCond
    BY <2>2
    DEF Discovery, NeedsDiscover, PowerUp, BusPower, BusClock, GoIdle, SendIfCond, AllSendCid,
        SendRelativeAddr, SendCsd, Select, SetBlocklen, PowerOff, Goto, TypeOK
  <2> QED
    BY <2>1, <2>2
<1>1. TypeOK'
  BY <1>a, <1>b, <1>c, <1>d, <1>e, <1>f DEF TypeOK
<1>2. Counters'
  BY <1>d, <1>e, <1>f DEF Counters, TypeOK
<1> QED
  BY <1>1, <1>2

LEMMA AccessTyped ==
  ASSUME TypeOK, NEW u \in Users, NEW c \in CardType, Access(u, c)
  PROVE  /\ card' \in CardType /\ state' \in CardStates
         /\ pc' \in {pc, "data"} /\ user' \in Users
<1>1. [c EXCEPT !.selected = TRUE] \in CardType
  BY DEF CardType
<1> QED
  BY <1>1 DEF Access, Works, Fails, Goto, TypeOK, CardStates

LEMMA RequestTyped ==
  TypeOK /\ Counters /\ (Ack \/ Request \/ FileOperation \/ Data)
    => TypeOK' /\ Counters'
<1> SUFFICES ASSUME TypeOK, Counters, Ack \/ Request \/ FileOperation \/ Data
             PROVE  TypeOK' /\ Counters'
  OBVIOUS
<1>a. [card EXCEPT !.new = FALSE] \in CardType /\ card \in CardType
  BY CardTyped DEF TypeOK
<1>b. card.cid \in Cards \cup {NoCard} /\ card.high \in BOOLEAN
  BY DEF TypeOK, CardType
<1>1. CASE Ack
  <2>1. card' \in CardType /\ acked' \in Cards \cup {NoCard}
    BY <1>1, <1>a, <1>b DEF Ack, AckCard, TypeOK
  <2> QED
    BY <1>1, <2>1 DEF Ack, TypeOK, Counters, slotVars, discVars
<1>2. CASE Request
  <2>1. Access("ppc", card) /\ pc = "idle"
    BY <1>2 DEF Request
  <2>2. /\ card' \in CardType /\ state' \in CardStates
        /\ pc' \in {pc, "data"} /\ user' \in Users
    BY <2>1, <1>a, AccessTyped DEF Users
  <2> QED
    BY <1>2, <2>1, <2>2 DEF Request, TypeOK, Counters, Steps
<1>3. CASE FileOperation
  <2>1. /\ card' \in CardType /\ state' \in CardStates
        /\ pc' \in {pc, "data"} /\ user' \in Users
    BY <1>3, <1>a, AccessTyped DEF FileOperation, Users, TypeOK
  <2>2. volume' \in Cards \cup {NoCard} /\ acked' \in Cards \cup {NoCard}
    BY <1>3, <1>b DEF FileOperation, TypeOK
  <2>3. pc = "idle"
    BY <1>3 DEF FileOperation
  <2> QED
    BY <1>3, <2>1, <2>2, <2>3 DEF FileOperation, TypeOK, Counters, Steps
<1>4. CASE Data
  <2>1. state' \in CardStates
    BY <1>4 DEF Data, Works, Fails, TypeOK, CardStates
  <2>2. /\ served' \in [by : Users, card : Cards \cup {NoCard},
                        acked : Cards \cup {NoCard}, layout : Cards \cup {NoCard},
                        high : BOOLEAN]
        /\ volume' \in Cards \cup {NoCard}
    BY <1>4, <1>b DEF Data, TypeOK
  <2>3. pc' = "idle" /\ user' \in Users
    BY <1>4 DEF Data, Goto, Users
  <2> QED
    BY <1>4, <2>1, <2>2, <2>3 DEF Data, TypeOK, Counters, Steps
<1> QED
  BY <1>1, <1>2, <1>3, <1>4

LEMMA StepTyped == TypeOK /\ Counters /\ [Next]_vars => TypeOK' /\ Counters'
<1> SUFFICES ASSUME TypeOK, Counters, [Next]_vars PROVE TypeOK' /\ Counters'
  OBVIOUS
<1>1. CASE CardEvent
  <2>1. /\ queued' = queued + 1 /\ events' = events + 1
        /\ slot' \in Cards \cup {NoCard} /\ state' \in CardStates
        /\ events' \in 0..MaxEvents
    BY <1>1, MoveTyped DEF CardEvent, CardStates
  <2> QED
    BY <1>1, <2>1, BoundsAssumption DEF CardEvent, TypeOK, Counters, discVars
<1>2. CASE Discover
  <2>1. queued' \in 0..MaxEvents /\ queued' <= events
    BY <1>2, BoundsAssumption DEF Discover, TypeOK, Counters
  <2>2. /\ pc' = "reset"
        /\ UNCHANGED <<slot, events, user, volume, acked, lost, served, state, power,
                       card, hcs, tries, broken>>
    BY <1>2 DEF Discover, At, Goto
  <2> QED
    BY <2>1, <2>2 DEF TypeOK, Counters, Steps
<1>3. CASE Discovery
  BY <1>3, DiscoveryTyped
<1>4. CASE Ack \/ Request \/ FileOperation \/ Data
  BY <1>4, RequestTyped
<1>5. CASE UNCHANGED vars
  BY <1>5 DEF vars, slotVars, discVars, TypeOK, Counters
<1> QED
  BY <1>1, <1>2, <1>3, <1>4, <1>5 DEF Next

LEMMA DiscoveryInv ==
  IInv /\ Discovery => (Identified /\ Announced /\ SizeKnown /\ AckedOnly)'
<1> SUFFICES ASSUME IInv, Discovery
             PROVE  (Identified /\ Announced /\ SizeKnown /\ AckedOnly)'
  OBVIOUS
<1> USE DEF Discovering, At, Goto, Works, Fails
<1> USE DEF IInv, TypeOK, CardType, Identified, Announced, SizeKnown, AckedOnly
<1>1. CASE NeedsDiscover
  BY <1>1 DEF NeedsDiscover
<1>2. CASE PowerUp
  BY <1>2 DEF PowerUp, BusPower, BusClock
<1>3. CASE GoIdle
  BY <1>3 DEF GoIdle
<1>4. CASE SendIfCond
  BY <1>4 DEF SendIfCond
<1>5. CASE AppOpCond
  BY <1>5 DEF AppOpCond, LastTry
<1>6. CASE AllSendCid
  BY <1>6 DEF AllSendCid
<1>7. CASE SendRelativeAddr
  BY <1>7 DEF SendRelativeAddr
<1>8. CASE SendCsd
  BY <1>8 DEF SendCsd
<1>9. CASE Select
  BY <1>9 DEF Select, Selects, SelectFails
<1>10. CASE SetBlocklen
  BY <1>10 DEF SetBlocklen
<1>11. CASE PowerOff
  BY <1>11, MoveTyped DEF PowerOff
<1> QED
  BY <1>1, <1>2, <1>3, <1>4, <1>5, <1>6, <1>7, <1>8, <1>9, <1>10, <1>11 DEF Discovery

\* An access changes the card's record in two fields at most, and its state by
\* selecting it.
LEMMA AccessInv ==
  ASSUME TypeOK, pc = "idle", NEW u \in Users,
         NEW c \in {card, [card EXCEPT !.new = FALSE]}, Access(u, c)
  PROVE  /\ pc' \in {"idle", "data"} /\ (pc' = "data" => ~card'.new)
         /\ card'.inserted = card.inserted /\ card'.high = card.high
         /\ card'.cid = card.cid /\ card'.size = card.size /\ card'.new = c.new
         /\ UNCHANGED state \/ (state = "stby" /\ state' = "tran")
<1>1. c \in CardType /\ card \in CardType
  BY CardTyped DEF TypeOK
<1>2. /\ c.inserted = card.inserted /\ c.high = card.high
      /\ c.cid = card.cid /\ c.size = card.size
  BY <1>1 DEF CardType
<1>3. card' = c \/ card' = [c EXCEPT !.selected = TRUE]
  BY DEF Access
<1>4. /\ card'.inserted = card.inserted /\ card'.high = card.high
      /\ card'.cid = card.cid /\ card'.size = card.size /\ card'.new = c.new
  BY <1>1, <1>2, <1>3 DEF CardType
<1>5. pc' \in {"idle", "data"} /\ (pc' = "data" => ~c.new)
  BY DEF Access, Refused, Goto
<1>6. UNCHANGED state \/ (state = "stby" /\ state' = "tran")
  BY DEF Access, Works, Fails
<1> QED
  BY <1>4, <1>5, <1>6

LEMMA RequestInv ==
  IInv /\ (Ack \/ Request \/ FileOperation \/ Data)
    => (Identified /\ Announced /\ SizeKnown /\ AckedOnly)'
<1> SUFFICES ASSUME IInv, Ack \/ Request \/ FileOperation \/ Data
             PROVE  (Identified /\ Announced /\ SizeKnown /\ AckedOnly)'
  OBVIOUS
<1> USE DEF Discovering
<1>a. TypeOK /\ card \in CardType
  BY DEF IInv, TypeOK
<1>1. CASE Ack
  <2>1. /\ card'.inserted = card.inserted /\ card'.high = card.high
        /\ card'.cid = card.cid /\ card'.size = card.size /\ ~card'.new
        /\ ~card.new => acked' = acked
        /\ card.new => acked' = card.cid
    BY <1>1, <1>a DEF Ack, AckCard, CardType
  <2> QED
    BY <1>1, <2>1 DEF Ack, slotVars, discVars, IInv, Identified, Announced, SizeKnown,
                      AckedOnly
<1>2. CASE Request
  <2>1. /\ pc = "idle" /\ Access("ppc", card)
        /\ UNCHANGED <<slot, acked, broken, served>>
    BY <1>2 DEF Request
  <2>2. /\ pc' \in {"idle", "data"} /\ (pc' = "data" => ~card'.new)
        /\ card'.inserted = card.inserted /\ card'.high = card.high
        /\ card'.cid = card.cid /\ card'.size = card.size /\ card'.new = card.new
        /\ UNCHANGED state \/ (state = "stby" /\ state' = "tran")
    BY <1>a, <2>1, AccessInv DEF Users
  <2> QED
    BY <2>1, <2>2 DEF IInv, Identified, Announced, SizeKnown, AckedOnly
<1>3. CASE FileOperation
  <2> DEFINE cleared == [card EXCEPT !.new = FALSE]
  <2>1. /\ pc = "idle" /\ UNCHANGED <<slot, broken, served>>
        /\ \/ Access("fs", card) /\ UNCHANGED acked
           \/ UNCHANGED <<state, card, pc, acked>>
           \/ /\ Access("mount", cleared)
              /\ acked' = IF card.new THEN card.cid ELSE acked
    BY <1>3 DEF FileOperation
  <2>2. CASE Access("fs", card) /\ UNCHANGED acked
    <3>1. /\ pc' \in {"idle", "data"} /\ (pc' = "data" => ~card'.new)
          /\ card'.inserted = card.inserted /\ card'.high = card.high
          /\ card'.cid = card.cid /\ card'.size = card.size /\ card'.new = card.new
          /\ UNCHANGED state \/ (state = "stby" /\ state' = "tran")
      BY <1>a, <2>1, <2>2, AccessInv DEF Users
    <3> QED
      BY <2>1, <2>2, <3>1 DEF IInv, Identified, Announced, SizeKnown, AckedOnly
  <2>3. CASE UNCHANGED <<state, card, pc, acked>>
    BY <2>1, <2>3 DEF IInv, Identified, Announced, SizeKnown, AckedOnly
  <2>4. CASE /\ Access("mount", cleared)
             /\ acked' = IF card.new THEN card.cid ELSE acked
    <3>1. /\ pc' \in {"idle", "data"} /\ (pc' = "data" => ~card'.new)
          /\ card'.inserted = card.inserted /\ card'.high = card.high
          /\ card'.cid = card.cid /\ card'.size = card.size
          /\ card'.new = cleared.new
          /\ UNCHANGED state \/ (state = "stby" /\ state' = "tran")
      BY <1>a, <2>1, <2>4, AccessInv DEF Users
    <3>2. ~cleared.new
      BY <1>a DEF CardType
    <3> QED
      BY <2>1, <2>4, <3>1, <3>2 DEF IInv, Identified, Announced, SizeKnown, AckedOnly
  <2> QED
    BY <2>1, <2>2, <2>3, <2>4
<1>4. CASE Data
  <2>1. /\ pc = "data" /\ pc' = "idle" /\ UNCHANGED <<slot, card, acked, broken, state>>
    BY <1>4 DEF Data, Goto, Works, Fails
  <2>2. AckedOnly'
    <3>1. CASE UNCHANGED served
      BY <3>1 DEF IInv, AckedOnly
    <3>2. CASE /\ Works({"tran"}, "tran")
               /\ served' = [by |-> user, card |-> slot, acked |-> acked,
                             layout |-> volume, high |-> card.high]
      BY <2>1, <3>2 DEF Works, IInv, Identified, Announced, AckedOnly
    <3> QED
      BY <1>4, <3>1, <3>2 DEF Data
  <2> QED
    BY <2>1, <2>2 DEF IInv, Identified, Announced, SizeKnown
<1> QED
  BY <1>1, <1>2, <1>3, <1>4

LEMMA StepInv == IInv /\ [Next]_vars => IInv'
<1> SUFFICES ASSUME IInv, [Next]_vars PROVE IInv'
  OBVIOUS
<1>1. TypeOK' /\ Counters'
  BY StepTyped DEF IInv
<1>2. (Identified /\ Announced /\ SizeKnown /\ AckedOnly)'
  <2>1. CASE CardEvent
    BY <2>1, MoveTyped DEF CardEvent, discVars, IInv, Identified, Announced, SizeKnown,
                           AckedOnly, Discovering
  <2>2. CASE Discover
    BY <2>2 DEF Discover, At, Goto, IInv, Identified, Announced, SizeKnown, AckedOnly,
                Discovering
  <2>3. CASE Discovery
    BY <2>3, DiscoveryInv
  <2>4. CASE Ack \/ Request \/ FileOperation \/ Data
    BY <2>4, RequestInv
  <2>5. CASE UNCHANGED vars
    BY <2>5 DEF vars, slotVars, discVars, IInv, Identified, Announced, SizeKnown,
                AckedOnly, Discovering
  <2> QED
    BY <2>1, <2>2, <2>3, <2>4, <2>5 DEF Next
<1> QED
  BY <1>1, <1>2 DEF IInv

\* The parts of the invariant hold in every reachable state.
THEOREM SdmmcInvariance == Spec => []IInv
  BY InitInv, StepInv, PTL DEF Spec

\* Every variable of the card layer keeps its type.
THEOREM SdmmcTyped == Spec => []TypeOK
  BY SdmmcInvariance, PTL DEF IInv

\* However cards are swapped between the commands, a data command that succeeds
\* went to the card the client acknowledged, in the unit that card uses.
THEOREM OnlyAcknowledged == Spec => []AckedOnly
  BY SdmmcInvariance, PTL DEF IInv

\* The size a client is told for a card it acknowledged is that card's, unless
\* the last discovery broke off.
THEOREM SizeKept == Spec => []SizeOfAcked
<1>1. IInv => SizeOfAcked
  BY DEF IInv, Announced, SizeKnown, SizeOfAcked, Discovering
<1> QED
  BY <1>1, SdmmcInvariance, PTL

(***************************************************************************)
(* That the record describes the slot once every event is handled needs    *)
(* what a discovery knows while no event interferes with it.               *)
(***************************************************************************)
Described ==
  card.inserted /\ card.cid = slot /\ card.size = slot /\ card.high = (slot \in HighCap)

SelectedTrue == card.selected => state = "tran"

Undisturbed ==
  queued = 0 /\ ~lost =>
    /\ Discovering => slot # NoCard
    /\ pc = "csd" => card.inserted /\ ~card.selected
    /\ pc = "select" => Described /\ ~card.selected
    /\ pc = "blocklen" => Described /\ SelectedTrue
    /\ pc \in {"idle", "data"} /\ ~broken =>
         \/ slot = NoCard /\ ~card.inserted
         \/ slot # NoCard /\ Described /\ SelectedTrue

LEMMA InitUndisturbed == Init => Undisturbed
  BY DEF Init, Blank, Undisturbed, Discovering

LEMMA StepUndisturbed == IInv /\ Undisturbed /\ [Next]_vars => Undisturbed'
<1> SUFFICES ASSUME IInv, Undisturbed, [Next]_vars PROVE Undisturbed'
  OBVIOUS
<1> USE DEF Discovering, Undisturbed, Described, SelectedTrue, Goto
<1>a. TypeOK /\ card \in CardType /\ queued \in Nat
  BY BoundsAssumption DEF IInv, TypeOK
<1>1. CASE CardEvent
  BY <1>a, <1>1 DEF CardEvent
<1>2. CASE Discover
  BY <1>2 DEF Discover, At
<1>3. CASE Discovery
  <2> USE <1>a DEF At, Works, Fails, CardType
  <2>1. CASE NeedsDiscover
    BY <2>1 DEF NeedsDiscover
  <2>2. CASE PowerUp \/ GoIdle \/ SendIfCond
    BY <2>2 DEF PowerUp, BusPower, BusClock, GoIdle, SendIfCond
  <2>3. CASE AppOpCond
    BY <2>3 DEF AppOpCond, LastTry
  <2>4. CASE AllSendCid \/ SendRelativeAddr
    BY <2>4 DEF AllSendCid, SendRelativeAddr
  <2>5. CASE SendCsd
    BY <2>5 DEF SendCsd, IInv, Identified
  <2>6. CASE Select
    BY <2>6 DEF Select, Selects, SelectFails
  <2>7. CASE SetBlocklen
    BY <2>7 DEF SetBlocklen
  <2>8. CASE PowerOff
    BY <2>8 DEF PowerOff
  <2> QED
    BY <1>3, <2>1, <2>2, <2>3, <2>4, <2>5, <2>6, <2>7, <2>8 DEF Discovery
<1>4. CASE Ack
  <2>1. /\ card'.inserted = card.inserted /\ card'.high = card.high
        /\ card'.cid = card.cid /\ card'.size = card.size
        /\ card'.selected = card.selected
    BY <1>4, <1>a DEF Ack, AckCard, CardType
  <2> QED
    BY <1>4, <2>1 DEF Ack, slotVars, discVars
<1>5. CASE Request \/ FileOperation
  <2>1. /\ pc = "idle" /\ UNCHANGED <<slot, queued, lost, broken>>
        /\ \/ UNCHANGED <<state, card, pc>>
           \/ \E u \in Users, c \in {card, [card EXCEPT !.new = FALSE]} : Access(u, c)
    BY <1>5 DEF Request, FileOperation, Users
  <2>2. CASE UNCHANGED <<state, card, pc>>
    BY <2>1, <2>2
  <2>3. ASSUME NEW u \in Users, NEW c \in {card, [card EXCEPT !.new = FALSE]},
               Access(u, c)
        PROVE  Undisturbed'
    <3>1. /\ pc' \in {"idle", "data"}
          /\ card'.inserted = card.inserted /\ card'.high = card.high
          /\ card'.cid = card.cid /\ card'.size = card.size
          /\ UNCHANGED state \/ (state = "stby" /\ state' = "tran")
      BY <1>a, <2>1, <2>3, AccessInv
    <3>2. card'.selected => card.selected \/ state' = "tran"
      BY <1>a, <2>3 DEF Access, Works, CardType
    <3> QED
      BY <2>1, <3>1, <3>2
  <2> QED
    BY <2>1, <2>2, <2>3
<1>6. CASE Data
  BY <1>6 DEF Data, Works, Fails
<1>7. CASE UNCHANGED vars
  BY <1>7 DEF vars, slotVars, discVars
<1> QED
  BY <1>1, <1>2, <1>3, <1>4, <1>5, <1>6, <1>7 DEF Next

\* When every card event has been handled, struct sdmmc_card describes the card
\* in the slot, or that there is none, unless a discovery broke off or a reset
\* wiped an event.
THEOREM RecordSettled == Spec => []Settled
<1>1. Undisturbed => Settled
  BY DEF Undisturbed, Settled, Described, SelectedTrue
<1>2. Init => IInv /\ Undisturbed
  BY InitInv, InitUndisturbed
<1>3. IInv /\ Undisturbed /\ [Next]_vars => (IInv /\ Undisturbed)'
  BY StepInv, StepUndisturbed
<1> QED
  BY <1>1, <1>2, <1>3, PTL DEF Spec
=============================================================================
