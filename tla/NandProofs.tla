----------------------------- MODULE NandProofs -----------------------------
(***************************************************************************)
(* Proofs about Nand for every chip geometry and every set of requests.    *)
(***************************************************************************)
EXTENDS Nand, TLAPS

\* What keeps the protected pages safe between the check and the write: while
\* the chip works there is a current request, so the limit cannot move; and the
\* limit was respected when the work was started.
Guarded ==
  /\ minPage \in MinPages \cup {BootPages}
  /\ chip.state # "idle" => current # None
  /\ chip.op \in PageOps => chip.arg \in 0..NPages-1
  /\ chip.op \in {"WRITE", "ERASE"} => chip.state # "idle" /\ chip.arg >= minPage
  /\ chip.op = "WRITE" => chip.data \in 1..MaxReq

NInv == TypeOK /\ Guarded

LEMMA Geometry ==
  /\ NPages \in Nat /\ BootPages \in 0..NPages /\ MaxReq \in Nat
  /\ ReadPages \subseteq 0..NPages-1
  /\ WritePages \subseteq Nat /\ MinPages \subseteq Nat
BY PagesAssumption, AlignedAssumption

LEMMA RequestTyped ==
  ASSUME NEW r \in Requests
  PROVE  /\ r.arg \in Nat
         /\ r.op = "SETMINPAGE" => r.arg \in MinPages
         /\ r.op = "READ" => r.arg \in 0..NPages-1
<1> USE Geometry
<1>1. CASE r \in [op : {"READ"}, arg : ReadPages]
  <2>1. r.op = "READ" /\ r.arg \in ReadPages
    BY <1>1
  <2>2. r.arg \in 0..NPages-1
    BY <2>1
  <2> QED
    BY <2>1, <2>2
<1>2. CASE r \in [op : {"WRITE", "ERASE"}, arg : WritePages]
  BY <1>2
<1>3. CASE r \in [op : {"SETMINPAGE"}, arg : MinPages]
  BY <1>3
<1>4. CASE r \in [op : {"RESET", "GETID", "STATUS", "GETMINPAGE", "unknown"}, arg : {0}]
  BY <1>4
<1> QED
  BY <1>1, <1>2, <1>3, <1>4 DEF Requests

LEMMA InitNand == Init => NInv
<1> SUFFICES ASSUME Init PROVE NInv
  OBVIOUS
<1> USE Geometry, NoneAssumption
<1>1. flash \in [0..NPages-1 -> Contents] /\ buf \in Contents
  BY DEF Init, Contents, Factory, Blank
<1>2. /\ chip.state = "idle" /\ chip.op \notin PageOps
      /\ chip \in [state : {"idle", "busy", "done"}, op : ChipOps \cup {None},
                   arg : Nat, data : 1..MaxReq \cup {None}]
  BY DEF Init, Idle, ChipOps, PageOps
<1>3. minPage \in MinPages \cup {BootPages} /\ minPage \in 0..BootPages
  BY DEF Init
<1>4. flag \in BOOLEAN
  BY Zenon DEF Init
<1>5. current = None /\ served \in 0..MaxReq
  BY DEF Init
<1>6. TypeOK
  BY <1>1, <1>2, <1>3, <1>4, <1>5 DEF TypeOK
<1> QED
  BY <1>2, <1>3, <1>6 DEF NInv, Guarded, PageOps

LEMMA StepNand == NInv /\ [Next]_vars => NInv'
<1> SUFFICES ASSUME NInv, [Next]_vars PROVE NInv'
  OBVIOUS
<1> USE Geometry, NoneAssumption
<1>1. ASSUME NEW r \in Requests, NandIpc(r) PROVE NInv'
  <2> DEFINE id == served + 1
  <2>1. /\ id \in 1..MaxReq /\ served' \in 0..MaxReq /\ UNCHANGED <<flash, flag>>
    BY <1>1 DEF NandIpc, NInv, TypeOK
  <2>2. CASE UNCHANGED <<current, buf, chip, minPage>>
    BY <2>1, <2>2 DEF NInv, TypeOK, Guarded
  <2>3. CASE ~Busy /\ r.op \in ChipOps /\ Start(id, r)
    <3>1. r.arg \in Nat /\ (r.op = "READ" => r.arg \in 0..NPages-1)
      BY RequestTyped
    <3>2. current' \in [id : 1..MaxReq, req : Requests] /\ current' # None
      BY <2>1, <2>3 DEF Start
    <3>3. buf' \in Contents /\ minPage' = minPage
      BY <2>1, <2>3 DEF Start, NInv, TypeOK, Contents
    <3>4. CASE chip' = chip
      <4>1. TypeOK'
        BY <2>1, <3>2, <3>3, <3>4 DEF NInv, TypeOK
      <4>2. Guarded'
        BY <3>2, <3>3, <3>4 DEF NInv, Guarded
      <4> QED
        BY <4>1, <4>2 DEF NInv
    <3>5. CASE /\ ~(r.op \in {"WRITE", "ERASE"} /\ Forbidden(r.arg))
               /\ chip' = [state |-> "busy", op |-> r.op, arg |-> r.arg,
                           data |-> IF r.op = "WRITE" THEN id ELSE None]
      <4>1. /\ chip'.state = "busy" /\ chip'.op = r.op /\ chip'.arg = r.arg
            /\ r.op = "WRITE" => chip'.data \in 1..MaxReq
        BY <2>1, <3>5
      <4>2. TypeOK'
        BY <2>1, <2>3, <3>1, <3>2, <3>3, <3>5 DEF NInv, TypeOK
      <4>3. r.op \in {"WRITE", "ERASE"} => r.arg \in 0..NPages-1 /\ r.arg >= minPage
        BY <3>1, <3>5 DEF Forbidden, NInv, TypeOK
      <4>4. Guarded'
        BY <3>1, <3>2, <3>3, <4>1, <4>3 DEF NInv, Guarded, PageOps
      <4> QED
        BY <4>2, <4>4 DEF NInv
    <3> QED
      BY <2>3, <3>4, <3>5 DEF Start
  <2>4. CASE ~Busy /\ r.op = "SETMINPAGE" /\ SetMinPage(id, r)
    <3>1. chip.op \notin {"WRITE", "ERASE"} /\ UNCHANGED <<current, buf, chip>>
      BY <2>4 DEF Busy, SetMinPage, NInv, Guarded
    <3>2. minPage' \in MinPages \cup {BootPages}
      BY <2>4, RequestTyped DEF SetMinPage, NInv, Guarded
    <3>3. minPage' \in 0..BootPages
      BY <2>4, RequestTyped DEF SetMinPage, NInv, TypeOK
    <3>4. TypeOK'
      BY <2>1, <3>1, <3>3 DEF NInv, TypeOK
    <3>5. Guarded'
      BY <3>1, <3>2 DEF NInv, Guarded
    <3> QED
      BY <3>4, <3>5 DEF NInv
  <2> QED
    BY <1>1, <2>2, <2>3, <2>4 DEF NandIpc, Refuse
<1>2. CASE ChipDone
  <2>1. chip' = [chip EXCEPT !.state = "done"] /\ UNCHANGED <<current, minPage, served>>
    BY <1>2 DEF ChipDone
  <2>2. chip'.state = "done" /\ chip'.op = chip.op /\ chip'.arg = chip.arg
          /\ chip'.data = chip.data /\ chip.state = "busy" /\ flag' = TRUE
    BY <1>2, <2>1 DEF ChipDone, NInv, TypeOK
  <2>3. Guarded'
    BY <2>1, <2>2 DEF NInv, Guarded
  <2>4. flash' \in [0..NPages-1 -> Contents] /\ buf' \in Contents
    <3>1. chip.op \in ChipOps
      BY <1>2 DEF ChipDone, ChipOps, PageOps
    <3>2. CASE chip.op = "READ"
      BY <1>2, <3>2 DEF ChipDone, NInv, TypeOK, Guarded, PageOps, Wrap
    <3>3. CASE chip.op \in {"GETID", "STATUS"}
      BY <1>2, <3>3 DEF ChipDone, NInv, TypeOK, Contents, Blank
    <3>4. CASE chip.op = "WRITE"
      BY <1>2, <3>4 DEF ChipDone, NInv, TypeOK, Guarded, Contents, Torn, PageOps, Wrap
    <3>5. CASE chip.op = "ERASE"
      BY <1>2, <3>5 DEF ChipDone, NInv, TypeOK, Contents, Blank, Torn
    <3> QED
      BY <3>1, <3>2, <3>3, <3>4, <3>5 DEF ChipOps, PageOps
  <2> QED
    BY <2>1, <2>2, <2>3, <2>4 DEF NInv, TypeOK
<1>3. CASE NandIrq
  BY <1>3 DEF NandIrq, Idle, NInv, TypeOK, Guarded, ChipOps, PageOps
<1>4. CASE UNCHANGED vars
  BY <1>4 DEF vars, NInv, TypeOK, Guarded
<1> QED
  BY <1>1, <1>2, <1>3, <1>4 DEF Next, Serve

\* While the chip works there is a request it works for, whose page respected the
\* limit when the command was started and still does (nand.c:201-238, 298-301).
THEOREM NandInvariance == Spec => []NInv
BY InitNand, StepNand, PTL DEF Spec

\* No page below the limit in force is ever written or wiped: the promise of
\* the safety checks of nand.c:209-213 and 230-234, for every geometry.
THEOREM BootPagesProtected == Spec => Protected
<1> DEFINE A == \A p \in 0..NPages-1 : p < minPage => flash'[p] = flash[p]
<1>1. NInv /\ [Next]_vars => [A]_vars
  <2> SUFFICES ASSUME NInv, ChipDone, NEW p \in 0..NPages-1, p < minPage
               PROVE  flash'[p] = flash[p]
    BY DEF Next, Serve, NandIpc, NandIrq
  <2> USE PagesAssumption, AlignedAssumption
  <2>1. CASE UNCHANGED flash
    BY <2>1
  <2>2. ASSUME chip.op \in {"WRITE", "ERASE"}
        PROVE  /\ Wrap(chip.arg) = chip.arg
               /\ chip.arg \in 0..NPages-1 /\ chip.arg # p /\ p \notin Block(chip.arg)
    BY <2>2 DEF NInv, Guarded, PageOps, TypeOK, Wrap
  <2>3. CASE chip.op = "WRITE"
    BY <2>2, <2>3 DEF ChipDone, NInv, TypeOK
  <2>4. CASE chip.op = "ERASE"
    BY <2>2, <2>4 DEF ChipDone, NInv, TypeOK
  <2> QED
    BY <2>1, <2>3, <2>4 DEF ChipDone
<1> QED
  BY NandInvariance, <1>1, PTL DEF Spec, Protected

\* The state of src/nand.c keeps its types, and the limit stays at or below the
\* pages of boot1 and boot2 (nand.c:344-353).
THEOREM NandTyped == Spec => []TypeOK
<1>1. NInv => TypeOK
  BY DEF NInv
<1> QED
  BY NandInvariance, <1>1, PTL

-----------------------------------------------------------------------------
\* Requests are numbered as they are served; the one that is current has no
\* answer yet.
Ops == {r.op : r \in Requests}
Answers == [id : 1..MaxReq, op : Ops, arg : Nat, code : Int, data : Contents \cup {None}]
Unanswered == current # None => \A i \in DOMAIN answers : answers[i].id # current.id
Numbered == /\ \A i \in DOMAIN answers : answers[i].id <= served
            /\ current # None => current.id <= served
OInv == answers \in Seq(Answers) /\ Numbered /\ Unanswered /\ AnsweredOnce

LEMMA Appended ==
  ASSUME NEW S, answers \in Seq(S), NEW x \in S, answers' = Append(answers, x)
  PROVE  /\ answers' \in Seq(S) /\ answers'[Len(answers)+1] = x
         /\ DOMAIN answers' = DOMAIN answers \cup {Len(answers)+1}
         /\ \A i \in DOMAIN answers : answers'[i] = answers[i]
OBVIOUS

LEMMA PostOnce ==
  ASSUME OInv, NEW id \in 1..MaxReq, NEW r \in Requests,
         NEW code \in Int, NEW data \in Contents \cup {None}, Post(id, r, code, data),
         id <= served', served <= served', served' \in Nat, served \in Nat,
         \A i \in DOMAIN answers : answers[i].id # id
  PROVE  /\ answers' \in Seq(Answers) /\ AnsweredOnce'
         /\ \A i \in DOMAIN answers' : answers'[i].id <= served'
         /\ \A i \in DOMAIN answers' : answers'[i].id # id =>
               i \in DOMAIN answers /\ answers'[i].id = answers[i].id
<1> DEFINE x == [id |-> id, op |-> r.op, arg |-> r.arg, code |-> code, data |-> data]
<1>1. x \in Answers /\ x.id = id
  BY RequestTyped DEF Answers, Ops
<1>2. answers' = Append(answers, x) /\ answers \in Seq(Answers)
  BY DEF Post, OInv
<1> HIDE DEF x
<1>3. /\ answers' \in Seq(Answers) /\ answers'[Len(answers)+1].id = id
      /\ DOMAIN answers' = DOMAIN answers \cup {Len(answers)+1}
      /\ \A i \in DOMAIN answers : answers'[i] = answers[i]
  BY <1>1, <1>2, Appended
<1>4. \A i \in DOMAIN answers : answers[i].id \in 1..MaxReq
  <2>1. \A i \in DOMAIN answers : answers[i] \in Answers
    <3> HIDE DEF Answers
    <3> QED
      BY <1>2
  <2> QED
    BY <2>1 DEF Answers
<1>5. \A i \in DOMAIN answers : answers[i].id <= served'
  BY <1>4, Geometry DEF OInv, Numbered
<1>6. AnsweredOnce'
  BY <1>3 DEF OInv, AnsweredOnce
<1>7. ASSUME NEW i \in DOMAIN answers'
      PROVE  /\ answers'[i].id <= served'
             /\ answers'[i].id # id => i \in DOMAIN answers /\ answers'[i].id = answers[i].id
  <2>1. CASE i \in DOMAIN answers
    BY <1>3, <1>5, <2>1
  <2>2. CASE i = Len(answers)+1
    BY <1>3, <2>2
  <2> QED
    BY <1>3, <1>7, <2>1, <2>2
<1> QED
  BY <1>3, <1>6, <1>7

LEMMA StepOnce == NInv /\ OInv /\ [Next]_vars => OInv'
<1> SUFFICES ASSUME NInv, OInv, [Next]_vars PROVE OInv'
  OBVIOUS
<1> USE Geometry, NoneAssumption
<1>1. ASSUME answers' = answers, served <= served', served' \in Nat,
             \/ current' = current
             \/ current' = None
             \/ current'.id = served + 1 /\ served' = served + 1
      PROVE  OInv'
  <2>1. \A i \in DOMAIN answers : answers[i].id \in 1..MaxReq /\ answers[i].id <= served
    <3>1. \A i \in DOMAIN answers : answers[i] \in Answers
      <4> HIDE DEF Answers
      <4> QED
        BY DEF OInv
    <3> QED
      BY <3>1 DEF Answers, OInv, Numbered
  <2>2. served \in 0..MaxReq /\ (current # None => current.id \in 1..MaxReq)
    BY DEF NInv, TypeOK
  <2>3. Numbered'
    BY <1>1, <2>1, <2>2 DEF OInv, Numbered
  <2>4. Unanswered'
    BY <1>1, <2>1, <2>2 DEF OInv, Unanswered
  <2> QED
    BY <1>1, <2>3, <2>4 DEF OInv, AnsweredOnce
<1>2. ASSUME NEW r \in Requests, NandIpc(r) PROVE OInv'
  <2>1. /\ served' = served + 1 /\ served + 1 \in 1..MaxReq /\ served \in Nat
        /\ served' \in Nat /\ served <= served'
    BY <1>2 DEF NandIpc, NInv, TypeOK
  <2>2. CASE answers' = answers
    <3>1. current' = current \/ current'.id = served + 1
      BY <1>2, <2>2 DEF NandIpc, Refuse, Start, SetMinPage
    <3> QED
      BY <1>1, <2>1, <2>2, <3>1
  <2>3. CASE answers' # answers
    <3>1. PICK code \in Int : Post(served + 1, r, code, None) /\ current' = current
      BY <1>2, <2>3 DEF NandIpc, Refuse, Start, SetMinPage, NInv, TypeOK
    <3>2. \A i \in DOMAIN answers : answers[i].id <= served
      BY DEF OInv, Numbered
    <3>3. \A i \in DOMAIN answers : answers[i].id # served + 1
      BY <2>1, <3>2
    <3>4. /\ answers' \in Seq(Answers) /\ AnsweredOnce'
          /\ \A i \in DOMAIN answers' : answers'[i].id <= served'
          /\ \A i \in DOMAIN answers' :
               answers'[i].id = served + 1 \/ (i \in DOMAIN answers /\ answers'[i].id = answers[i].id)
      BY <2>1, <3>1, <3>3, PostOnce
    <3>5. current # None => current.id \in 1..MaxReq /\ current.id <= served
      BY DEF NInv, TypeOK, OInv, Numbered
    <3>6. Numbered'
      BY <2>1, <3>1, <3>4, <3>5 DEF Numbered
    <3>7. Unanswered'
      BY <2>1, <3>1, <3>4, <3>5 DEF OInv, Unanswered
    <3> QED
      BY <3>4, <3>6, <3>7 DEF OInv
  <2> QED
    BY <2>2, <2>3
<1>3. CASE ChipDone
  BY <1>1, <1>3 DEF ChipDone, NInv, TypeOK
<1>4. CASE NandIrq
  <2>1. served' = served /\ served \in Nat
    BY <1>4 DEF NandIrq, NInv, TypeOK
  <2>2. CASE current = None
    BY <1>1, <1>4, <2>1, <2>2 DEF NandIrq
  <2>3. CASE current # None
    <3>1. current' = None /\ current \in [id : 1..MaxReq, req : Requests]
      BY <1>4, <2>3 DEF NandIrq, NInv, TypeOK
    <3>2. PICK err \in {0, 1, -1} :
            Post(current.id, current.req, err,
                 IF current.req.op = "READ" /\ err # -1 THEN buf ELSE None)
      BY <1>4, <2>3 DEF NandIrq
    <3>3. (IF current.req.op = "READ" /\ err # -1 THEN buf ELSE None) \in Contents \cup {None}
      BY DEF NInv, TypeOK
    <3>4. \A i \in DOMAIN answers : answers[i].id # current.id
      BY <2>3 DEF OInv, Unanswered
    <3>5. current.id <= served
      BY <2>3 DEF OInv, Numbered
    <3>6. /\ answers' \in Seq(Answers) /\ AnsweredOnce'
          /\ \A i \in DOMAIN answers' : answers'[i].id <= served'
      BY <2>1, <3>1, <3>2, <3>3, <3>4, <3>5, PostOnce
    <3> QED
      BY <3>1, <3>6 DEF OInv, Numbered, Unanswered
  <2> QED
    BY <2>2, <2>3
<1>5. CASE UNCHANGED vars
  BY <1>1, <1>5 DEF vars, NInv, TypeOK
<1> QED
  BY <1>2, <1>3, <1>4, <1>5 DEF Next, Serve

\* A request is answered at most once, whatever is refused or finishes while it
\* waits (nand.c:104-107, 298-301).
THEOREM NoSecondAnswer == Spec => []AnsweredOnce
<1>1. Init => OInv
  BY DEF Init, OInv, Numbered, Unanswered, AnsweredOnce
<1>2. OInv => AnsweredOnce
  BY DEF OInv
<1> QED
  BY NandInvariance, <1>1, <1>2, StepOnce, PTL DEF Spec

-----------------------------------------------------------------------------
\* The chip works for the current request, and while the page it read waits in
\* ipc_data for the interrupt, neither ipc_data nor the page changes.
Matched ==
  /\ flag <=> chip.state = "done"
  /\ chip.state # "idle" => chip.op = current.req.op /\ chip.arg = current.req.arg
  /\ chip.state = "done" /\ chip.op = "READ" => buf = flash[chip.arg]

LEMMA StepMatched == NInv /\ Matched /\ [Next]_vars => Matched'
<1> SUFFICES ASSUME NInv, Matched, [Next]_vars PROVE Matched'
  OBVIOUS
<1> USE Geometry, NoneAssumption
<1>1. ASSUME NEW r \in Requests, NandIpc(r) PROVE Matched'
  <2>1. UNCHANGED <<flash, flag>>
    BY <1>1 DEF NandIpc
  <2>2. CASE UNCHANGED <<current, buf, chip>>
    BY <2>1, <2>2 DEF Matched
  <2>3. CASE ~Busy /\ Start(served + 1, r)
    <3>1. chip.state = "idle" /\ ~flag
      BY <2>3 DEF Busy, NInv, TypeOK, Guarded, Matched
    <3>2. current' = [id |-> served + 1, req |-> r]
      BY <2>3 DEF Start
    <3>3. CASE chip' = chip
      BY <2>1, <3>1, <3>3 DEF Matched
    <3>4. CASE chip' = [state |-> "busy", op |-> r.op, arg |-> r.arg,
                        data |-> IF r.op = "WRITE" THEN served + 1 ELSE None]
      <4>1. chip'.state = "busy" /\ chip'.op = r.op /\ chip'.arg = r.arg
        BY <3>4
      <4> QED
        BY <2>1, <3>1, <3>2, <4>1 DEF Matched
    <3> QED
      BY <2>3, <3>3, <3>4 DEF Start
  <2> QED
    BY <1>1, <2>2, <2>3 DEF NandIpc, Refuse, SetMinPage
<1>2. CASE ChipDone
  <2>1. /\ chip'.state = "done" /\ chip'.op = chip.op /\ chip'.arg = chip.arg
        /\ chip.state = "busy" /\ flag' = TRUE /\ UNCHANGED current
    BY <1>2 DEF ChipDone, NInv, TypeOK
  <2>2. ASSUME chip.op = "READ" PROVE buf' = flash'[chip.arg]
    BY <1>2, <2>2 DEF ChipDone, NInv, Guarded, PageOps, Wrap
  <2> QED
    BY <2>1, <2>2 DEF Matched
<1>3. CASE NandIrq
  <2>1. chip'.state = "idle" /\ flag' = FALSE
    BY <1>3 DEF NandIrq, Idle
  <2> QED
    BY <2>1 DEF Matched
<1>4. CASE UNCHANGED vars
  BY <1>4 DEF vars, Matched
<1> QED
  BY <1>1, <1>2, <1>3, <1>4 DEF Next, Serve

\* A successful read hands out the page that was asked for, though every
\* request shares ipc_data (nand.c:84-94, 319-331).
THEOREM ReadsFaithful == Spec => ReadFaithful
<1> DEFINE A == Len(answers') > Len(answers) =>
                  LET a == Last(answers') IN
                    a.op = "READ" /\ a.code >= 0 => a.data = flash[a.arg]
<1>1. Init => OInv /\ Matched
  BY DEF Init, OInv, Numbered, Unanswered, AnsweredOnce, Matched, Idle
<1>2. NInv /\ OInv /\ Matched /\ [Next]_vars => [A]_vars
  <2> SUFFICES ASSUME NInv, OInv, Matched, Next, Len(answers') > Len(answers)
               PROVE  LET a == Last(answers') IN
                        a.op = "READ" /\ a.code >= 0 => a.data = flash[a.arg]
    OBVIOUS
  <2>1. ASSUME NEW id, NEW r, NEW code, NEW data, Post(id, r, code, data)
        PROVE  /\ Last(answers').op = r.op /\ Last(answers').arg = r.arg
               /\ Last(answers').code = code /\ Last(answers').data = data
    <3> DEFINE x == [id |-> id, op |-> r.op, arg |-> r.arg, code |-> code, data |-> data]
    <3>1. x.op = r.op /\ x.arg = r.arg /\ x.code = code /\ x.data = data
      OBVIOUS
    <3>2. answers' = Append(answers, x) /\ answers \in Seq(Answers)
      BY <2>1 DEF Post, OInv
    <3> HIDE DEF x
    <3>3. Len(answers') = Len(answers) + 1 /\ answers'[Len(answers) + 1] = x
      BY <3>2
    <3> QED
      BY <3>1, <3>3 DEF Last
  <2>2. ASSUME NEW r \in Requests, NandIpc(r), answers' # answers
        PROVE  Last(answers').op = "READ" => Last(answers').code = -1
    <3>1. CASE Refuse(served + 1, r)
      BY <2>1, <3>1 DEF Refuse
    <3>2. CASE r.op \in {"SETMINPAGE", "RESET", "GETMINPAGE"} /\ \E code : Post(served + 1, r, code, None)
      BY <2>1, <3>2
    <3> QED
      BY <2>2, <3>1, <3>2 DEF NandIpc, Start, SetMinPage
  <2>3. ASSUME NandIrq, answers' # answers, Last(answers').op = "READ", Last(answers').code >= 0
        PROVE  Last(answers').data = flash[Last(answers').arg]
    <3>1. current # None /\ flag
      BY <2>3 DEF NandIrq
    <3>2. PICK err \in {0, 1, -1} :
            Post(current.id, current.req, err,
                 IF current.req.op = "READ" /\ err # -1 THEN buf ELSE None)
      BY <2>3, <3>1 DEF NandIrq
    <3>3. current.req.op = "READ" /\ err # -1
      BY <2>1, <2>3, <3>2
    <3>4. Last(answers').arg = current.req.arg /\ Last(answers').data = buf
      BY <2>1, <3>2, <3>3
    <3> QED
      BY <3>1, <3>3, <3>4 DEF Matched
  <2>4. answers' # answers
    BY DEF OInv
  <2> QED
    BY <2>2, <2>3, <2>4 DEF Next, Serve, ChipDone
<1> QED
  BY NandInvariance, StepOnce, StepMatched, <1>1, <1>2, PTL DEF Spec, ReadFaithful
=============================================================================
