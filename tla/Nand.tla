-------------------------------- MODULE Nand --------------------------------
(***************************************************************************)
(* The NAND driver (src/nand.c): nand_ipc, called by the main loop for one *)
(* request at a time, starts an operation and remembers it in              *)
(* current_request; the chip works on its own and interrupts; nand_irq     *)
(* answers.  ipc_post is the service of Ipc: here an answer is a record    *)
(* appended to answers.  A page is known by what was last put into it.     *)
(***************************************************************************)
EXTENDS Integers, Sequences, SequencesExt

CONSTANTS NPages,       \* NAND_MAX_PAGE
          BlockPages,   \* BLOCK_SIZE: pages an erase wipes
          BootPages,    \* 0x200: the pages of boot1 and boot2
          MinPages,     \* what IPC_NAND_SETMINPAGE asks for
          WritePages,   \* pages that requests to write and erase name
          ReadPages,    \* pages that requests to read name
          MaxReq,       \* requests served
          None

ASSUME PagesAssumption ==
  /\ NPages \in Nat /\ BlockPages \in Nat \ {0} /\ BootPages \in 0..NPages
  /\ WritePages \subseteq Nat /\ ReadPages \subseteq 0..NPages-1
  /\ MaxReq \in Nat

Block(p) == {q \in 0..NPages-1 : q \div BlockPages = p \div BlockPages}

\* The limits a careful caller sets fall between two blocks: an erase wipes its
\* whole block whatever page of it was checked.
ASSUME AlignedAssumption ==
  /\ MinPages \subseteq Nat
  /\ \A m \in MinPages \cup {BootPages} :
       \A p \in 0..NPages-1 : p >= m => \A q \in Block(p) : q >= m

VARIABLES flash,     \* content of each page
          chip,      \* the command the chip works on, and what it found
          flag,      \* IRQF_NAND
          current,   \* current_request, or None when its code is 0
          buf,       \* ipc_data
          minPage,   \* nand_min_page
          answers,   \* what was posted, oldest first
          served     \* requests taken from the slow queue

vars == <<flash, chip, flag, current, buf, minPage, answers, served>>

PageOps == {"READ", "WRITE", "ERASE"}
ChipOps == PageOps \cup {"GETID", "STATUS"}
Requests ==
  [op : {"READ"}, arg : ReadPages] \cup [op : {"WRITE", "ERASE"}, arg : WritePages]
    \cup [op : {"SETMINPAGE"}, arg : MinPages]
    \cup [op : {"RESET", "GETID", "STATUS", "GETMINPAGE", "unknown"}, arg : {0}]

\* A page holds what the request of that number wrote, or one of these.
Factory == 0
Blank == -1
Torn == -2
Contents == {Factory, Blank, Torn} \cup 1..MaxReq

ASSUME NoneAssumption == None \notin ChipOps /\ None \notin [id : 1..MaxReq, req : Requests]

Idle == [state |-> "idle", op |-> None, arg |-> 0, data |-> None]

Init ==
  /\ flash = [p \in 0..NPages-1 |-> Factory]
  /\ chip = Idle /\ flag = FALSE
  /\ current = None /\ buf = Blank
  /\ minPage = BootPages
  /\ answers = <<>> /\ served = 0

Post(id, r, code, data) ==
  answers' = Append(answers, [id |-> id, op |-> r.op, arg |-> r.arg,
                              code |-> code, data |-> data])

Busy_unchecked == FALSE
Busy == current # None

\* The safety check of nand_write_page and nand_erase_block.
Forbidden_late(p) == p < minPage - 1
Forbidden(p) == p < minPage \/ p >= NPages

\* nand_write_page and nand_erase_block return without a command when the page
\* is forbidden; by then the request is already the current one.
Start(id, r) ==
  /\ current' = [id |-> id, req |-> r]
  /\ buf' = IF r.op = "WRITE" THEN id ELSE buf
  /\ chip' = IF r.op \in {"WRITE", "ERASE"} /\ Forbidden(r.arg) THEN chip
             ELSE [state |-> "busy", op |-> r.op, arg |-> r.arg,
                   data |-> IF r.op = "WRITE" THEN id ELSE None]
  /\ UNCHANGED <<minPage, answers>>

SetMinPage_unchecked(id, r) ==
  /\ minPage' = r.arg /\ Post(id, r, 0, None) /\ UNCHANGED <<current, buf, chip>>
SetMinPage(id, r) ==
  /\ IF r.arg > BootPages THEN UNCHANGED <<minPage, answers>>
     ELSE minPage' = r.arg /\ Post(id, r, 0, None)
  /\ UNCHANGED <<current, buf, chip>>

Refuse_noreturn(id, r) ==
  /\ Post(id, r, -1, None) /\ current' = [id |-> id, req |-> r]
  /\ chip' = [state |-> "busy", op |-> "READ", arg |-> 0, data |-> None]
  /\ UNCHANGED <<buf, minPage>>
Refuse(id, r) == Post(id, r, -1, None) /\ UNCHANGED <<current, buf, chip, minPage>>

NandIpc(r) ==
  /\ served < MaxReq /\ served' = served + 1
  /\ LET id == served + 1 IN
     \/ Busy /\ Refuse(id, r)
     \/ ~Busy /\ r.op \in ChipOps /\ Start(id, r)
     \/ ~Busy /\ r.op = "SETMINPAGE" /\ SetMinPage(id, r)
     \/ /\ ~Busy /\ r.op \in {"RESET", "GETMINPAGE"}
        /\ Post(id, r, IF r.op = "RESET" THEN 0 ELSE minPage, None)
        /\ UNCHANGED <<current, buf, chip, minPage>>
     \/ ~Busy /\ r.op = "unknown" /\ UNCHANGED <<current, buf, chip, minPage, answers>>
  /\ UNCHANGED <<flash, flag>>

\* The chip finishes: it ignores address bits above its size, DMAs what it read
\* to ipc_data, and may fail half-way through a write or an erase.
Wrap(p) == IF p < NPages THEN p ELSE p % NPages

ChipDone ==
  /\ chip.state = "busy"
  /\ chip' = [chip EXCEPT !.state = "done"] /\ flag' = TRUE
  /\ LET page == Wrap(chip.arg) IN
     \/ /\ chip.op = "READ" /\ buf' = flash[page] /\ UNCHANGED flash
     \/ /\ chip.op \in {"GETID", "STATUS"} /\ buf' = Blank /\ UNCHANGED flash
     \/ /\ chip.op = "WRITE" /\ UNCHANGED buf
        /\ \E d \in {chip.data, Torn} : flash' = [flash EXCEPT ![page] = d]
     \/ /\ chip.op = "ERASE" /\ UNCHANGED buf
        /\ \E d \in {Blank, Torn} :
             flash' = [p \in DOMAIN flash |-> IF p \in Block(page) THEN d ELSE flash[p]]
  /\ UNCHANGED <<current, minPage, answers, served>>

\* nand_irq: the result is the chip's error bit, or for a read what
\* nand_correct made of the page.  It hands out ipc_data as it is now.
NandIrq ==
  /\ flag /\ flag' = FALSE /\ chip' = Idle
  /\ IF current = None THEN UNCHANGED <<current, answers>>
     ELSE /\ current' = None
          /\ \E err \in IF current.req.op = "READ" THEN {0, 1, -1} ELSE {0, -1} :
               Post(current.id, current.req, err,
                    IF current.req.op = "READ" /\ err # -1 THEN buf ELSE None)
  /\ UNCHANGED <<flash, buf, minPage, served>>

Serve == \E r \in Requests : NandIpc(r)
Next == Serve \/ ChipDone \/ NandIrq
Spec == Init /\ [][Next]_vars
\* The chip finishes what it was told to do, and its interrupt is taken.
FairSpec == Spec /\ WF_vars(ChipDone) /\ WF_vars(NandIrq)

-----------------------------------------------------------------------------
\* The types of the state of src/nand.c; the limit is never raised above the
\* pages of boot1 and boot2, whatever a request asks for.
TypeOK ==
  /\ flash \in [0..NPages-1 -> Contents]
  /\ chip \in [state : {"idle", "busy", "done"}, op : ChipOps \cup {None},
              arg : Nat, data : 1..MaxReq \cup {None}]
  /\ flag \in BOOLEAN
  /\ current = None \/ current \in [id : 1..MaxReq, req : Requests]
  /\ buf \in Contents /\ minPage \in 0..BootPages /\ served \in 0..MaxReq

\* No page below the limit in force is ever written or wiped, however requests,
\* refusals and changes of the limit are interleaved with the chip's work
\* (nand.c:209-213, 230-234, 298-301, 344-353).
Protected ==
  [][\A p \in 0..NPages-1 : p < minPage => flash'[p] = flash[p]]_vars

\* A request is answered at most once (nand.c:104-107, 298-301).
AnsweredOnce ==
  \A i, j \in DOMAIN answers : answers[i].id = answers[j].id => i = j

\* The data of a successful read is the page that was asked for, though every
\* request shares ipc_data (nand.c:84-94, 319-331).
ReadFaithful ==
  [][Len(answers') > Len(answers) =>
       LET a == Last(answers') IN
         a.op = "READ" /\ a.code >= 0 => a.data = flash[a.arg]]_vars

\* An operation the chip was given is answered (nand.c:64-110).
OperationAnswered ==
  \A id \in 1..MaxReq :
    (chip.state = "busy" /\ current # None /\ current.id = id)
      ~> (\E i \in DOMAIN answers : answers[i].id = id)

\* "previous IPC request is not done yet" (nand.c:299): when the driver refuses
\* a request there is one the chip is working on or has just finished.
RefusedOnlyWhileWorking == current # None => chip.state # "idle"
=============================================================================
