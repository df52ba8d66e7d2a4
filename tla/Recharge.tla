------------------------------ MODULE Recharge ------------------------------
(***************************************************************************)
(* Recharge of one account: the payment pages (app/static/app.js and the   *)
(* qr.js in its frame), the Python server that keeps the account's payment *)
(* in memory (app/services/browser_automation.py) and the provider's       *)
(* checkout.                                                               *)
(*                                                                         *)
(* A page sends requests; each is a task of the server, in a free slot.    *)
(* Every request but the status query takes the account's operation lock,  *)
(* an order request twice.  A step of the server is what happens between   *)
(* two awaits; its answer is taken by the page in a step of its own, or    *)
(* dropped when the dialog or the frame that asked is gone.                *)
(*                                                                         *)
(* An order stands for its number and its amount, a QR code for its number *)
(* in the list of codes the provider issued.  The payment methods are one; *)
(* no browser session has a checkout page open (the code then falls back   *)
(* to driving that page, which is not modelled).                           *)
(***************************************************************************)
EXTENDS OperationLock, Naturals, FiniteSets

CONSTANTS
  Page,       \* the open web pages
  Slots,      \* bound of the model on requests under way at one time
  MaxOrders,  \* bound of the model on orders
  MaxQrs,     \* bound of the model on QR codes
  MaxFaults,  \* bound of the model on calls that fail and restarts
  MaxTime,    \* bound of the model on time
  Valid,      \* QR_VALID_SECONDS
  Tries,      \* loads of the picture before the frame gives up (5 in qr.js)
  Nothing     \* no payment, no frame, no answer

ASSUME BoundAssumption ==
  /\ Slots \in Nat \ {0}
  /\ {MaxOrders, MaxQrs, MaxFaults, MaxTime} \subseteq Nat
  /\ {Valid, Tries} \subseteq Nat \ {0}

Task == 1..Slots

VARIABLES
  orders,   \* orders created at the provider: 1..orders
  qrs,      \* QR codes issued: each one's order and time
  paid,     \* orders paid
  object,   \* [order -> its payment, a dict changed in place]     (memory)
  current,  \* the one in _cookie_payments[account], or 0         (memory)
  task,     \* [Task -> the request in the slot]
  page,     \* [Page -> dialog and frame]
  now,      \* time
  faults,   \* calls that failed and restarts so far
  gone      \* history: orders that were on file and are not any more

provider    == <<orders, qrs, paid>>
paymentVars == <<provider, object, current, line, task, page, now, faults, gone>>

-----------------------------------------------------------------------------
(* Requests *)

Free ==
  [pc |-> "free", kind |-> Nothing, page |-> Nothing, fresh |-> FALSE, obj |-> 0,
   order |-> 0, qr |-> 0, prev |-> 0, since |-> 0, got |-> Nothing, left |-> 0]

NoPage == [open |-> FALSE, buttons |-> FALSE, closing |-> FALSE, paying |-> FALSE,
           success |-> FALSE, frame |-> Nothing]

\* A slot for a new request: which one makes no difference.
FreeSlots == {t \in Task : task[t].pc = "free"}
Slot      == CHOOSE t \in FreeSlots : TRUE

Request(k, p) == [Free EXCEPT !.pc = "sent", !.kind = k, !.page = p, !.fresh = TRUE]

Min2(a, b) == IF a <= b THEN a ELSE b

\* _payment_qr_remaining_seconds
Left(p) == IF p.expires > now THEN p.expires - now ELSE 0

\* What an answer says: its outcome, the order and QR code, the seconds left.
Done(t, got, o, q, left) ==
  [task[t] EXCEPT !.pc = "done", !.got = got, !.order = o, !.qr = q, !.left = left,
                  !.obj = 0, !.prev = 0, !.since = 0]

Answer(t, got, o, q, left) == task' = [task EXCEPT ![t] = Done(t, got, o, q, left)]

Fault == faults < MaxFaults /\ faults' = faults + 1

\* A refusal of the provider at a bound of the model counts as no fault.
FaultOr(atBound) == IF atBound THEN UNCHANGED faults ELSE Fault

NewPayment(o) == [order |-> o, qr |-> 0, expires |-> 0, png |-> 0, capped |-> FALSE]

payment == IF current = 0 THEN Nothing ELSE object[current]

\* Order o is put on file, or with 0 none.
File(o) ==
  /\ current' = o
  /\ gone' = IF current \notin {0, o} THEN gone \cup {current} ELSE gone

\* Payment p is changed and put on file.
Write(p) == object' = [object EXCEPT ![p.order] = p] /\ File(p.order)

Keep == UNCHANGED <<object, current, gone>>

PaymentInit ==
  /\ orders = 0
  /\ qrs = <<>>
  /\ paid = {}
  /\ object = [o \in 1..MaxOrders |-> NewPayment(o)]
  /\ current = 0
  /\ line = <<>>
  /\ task = [t \in Task |-> Free]
  /\ page = [p \in Page |-> NoPage]
  /\ now = 0
  /\ faults = 0
  /\ gone = {}

\* A request arrives: the handler reads the account and asks for the lock.
Arrive(t) ==
  /\ task[t].pc = "sent"
  /\ task[t].kind # "poll"
  /\ task' = [task EXCEPT ![t].pc = "wait"]
  /\ line' = Append(line, t)
  /\ UNCHANGED <<provider, page, now, faults>>
  /\ Keep

-----------------------------------------------------------------------------
(* Order: created under the lock, activated under the lock taken again *)

\* The call that creates the order; the provider may create it and the call fail.
CreateOrder(t) ==
  /\ Holds(t) /\ task[t].kind = "order" /\ task[t].pc = "wait"
  /\ \/ /\ orders < MaxOrders
        /\ orders' = orders + 1
        /\ task' = [task EXCEPT ![t].pc = "channels", ![t].order = orders + 1]
        /\ UNCHANGED <<line, faults>>
     \/ /\ FaultOr(orders = MaxOrders)
        /\ orders' \in {orders, orders + 1} \cap (0..MaxOrders)
        /\ Answer(t, "failed", 0, 0, 0)
        /\ line' = Tail(line)
  /\ UNCHANGED <<qrs, paid, page, now>>
  /\ Keep

\* The query of the pay channels; then the order is the account's payment.
Channels(t) ==
  /\ Holds(t) /\ task[t].pc = "channels"
  /\ \/ /\ Write(NewPayment(task[t].order))
        /\ task' = [task EXCEPT ![t].pc = "wait", ![t].kind = "activate"]
        /\ line' = Append(Tail(line), t)
        /\ UNCHANGED faults
     \/ /\ Fault
        /\ Answer(t, "failed", 0, 0, 0)
        /\ line' = Tail(line)
        /\ Keep
  /\ UNCHANGED <<provider, page, now>>

-----------------------------------------------------------------------------
(* QR codes: activation of a payment and refresh *)

Asks == {"activate", "pay", "refresh"}

\* What the provider may answer for order o: no code, its last one, a new one.
CodesOf(o) == {q \in 1..Len(qrs) : qrs[q].order = o}

Latest(o) == {q \in CodesOf(o) : \A r \in CodesOf(o) : r <= q}

Issue(o, q) ==
  \/ q = 0 /\ FaultOr(Len(qrs) = MaxQrs) /\ UNCHANGED qrs
  \/ q \in Latest(o) /\ UNCHANGED <<qrs, faults>>
  \/ /\ q = Len(qrs) + 1 /\ q <= MaxQrs
     /\ qrs' = Append(qrs, [order |-> o, at |-> now])
     /\ UNCHANGED faults

\* The call for a code; without a payment on file there is nothing to call for.
Precreate(t) ==
  /\ Holds(t) /\ task[t].kind \in Asks /\ task[t].pc \in {"wait", "again"}
  /\ \/ /\ payment = Nothing
        /\ Answer(t, "noqr", task[t].order, 0, 0)
        /\ line' = Tail(line)
        /\ UNCHANGED <<qrs, faults>>
     \/ /\ payment # Nothing
        /\ \E q \in 0..MaxQrs :
             /\ Issue(payment.order, q)
             /\ task' = [task EXCEPT
                  ![t].pc = IF @ = "wait" THEN "asked" ELSE "askedAgain",
                  ![t].since = IF task[t].pc = "wait" THEN now ELSE @,
                  ![t].obj = current, ![t].prev = payment.qr, ![t].qr = q]
        /\ UNCHANGED line
  /\ UNCHANGED <<orders, paid, page, now>>
  /\ Keep

\* Mutant: the picture of the code before is kept.
Activated_KeepsPicture(t) ==
  [object[task[t].obj] EXCEPT !.qr = task[t].qr, !.expires = now + Valid, !.capped = FALSE]

\* The payment the task read, with the code it got for it.
Activated(t) ==
  [object[task[t].obj] EXCEPT !.qr = task[t].qr, !.expires = now + Valid, !.png = 0,
                      !.capped = FALSE]

\* No code, or the answer with it is lost.
CodeFails(t) ==
  /\ task[t].qr = 0 \/ faults < MaxFaults
  /\ faults' = IF task[t].qr = 0 THEN faults ELSE faults + 1
  /\ Answer(t, "noqr", task[t].order, 0, 0)
  /\ line' = Tail(line)
  /\ Keep

Activate(t) ==
  /\ Holds(t) /\ task[t].kind \in {"activate", "pay"} /\ task[t].pc = "asked"
  /\ \/ CodeFails(t)
     \/ /\ task[t].qr # 0
        /\ Write(Activated(t))
        /\ Answer(t, "ready",
             IF task[t].kind = "pay" THEN task[t].obj ELSE task[t].order,
             task[t].qr, Valid)
        /\ line' = Tail(line)
        /\ UNCHANGED faults
  /\ UNCHANGED <<provider, page, now>>

\* Mutant: valid from the moment of the answer.
Refreshed_FromAnswer(t) == [Activated(t) EXCEPT !.capped = TRUE]

\* The code is new: valid from the moment the refresh began, not the answer's.
Refreshed(t) ==
  [Activated(t) EXCEPT !.expires = Min2(@, task[t].since + Valid), !.capped = TRUE]

\* Mutant: the attempts are not counted.
MayRetry_Always(t) == TRUE

MayRetry(t) == task[t].pc = "asked"

\* The same code again is asked for once more, and then reported as unchanged.
RefreshCode(t) ==
  /\ Holds(t) /\ task[t].kind = "refresh" /\ task[t].pc \in {"asked", "askedAgain"}
  /\ \/ CodeFails(t)
     \/ /\ task[t].qr \notin {0, task[t].prev}
        /\ Write(Refreshed(t))
        /\ Answer(t, "ready", 0, task[t].qr, Left(Refreshed(t)))
        /\ line' = Tail(line)
        /\ UNCHANGED faults
     \/ /\ task[t].qr # 0 /\ task[t].qr = task[t].prev
        /\ Write(Activated(t))
        /\ IF MayRetry(t)
           THEN /\ task' = [task EXCEPT ![t].pc = "again"]
                /\ UNCHANGED line
           ELSE /\ Answer(t, "unchanged", 0, task[t].qr, Valid)
                /\ line' = Tail(line)
        /\ UNCHANGED faults
  /\ UNCHANGED <<provider, page, now>>

-----------------------------------------------------------------------------
(* Picture, status, close *)

HasCode == payment # Nothing /\ payment.qr # 0

\* get_payment_qr: the picture on file while the code is valid, or a new one.
GetQr(t) ==
  /\ Holds(t) /\ task[t].kind = "image" /\ task[t].pc = "wait"
  /\ \/ /\ ~HasCode
        /\ Answer(t, "noqr", 0, 0, 0)
        /\ line' = Tail(line)
     \/ /\ HasCode
        /\ IF payment.png # 0 /\ payment.expires > now
           THEN /\ Answer(t, "ready", 0, payment.png, 0)
                /\ line' = Tail(line)
           ELSE /\ task' = [task EXCEPT ![t].pc = "draw", ![t].obj = current, ![t].qr = payment.qr]
                /\ UNCHANGED line
  /\ UNCHANGED <<provider, page, now, faults>>
  /\ Keep

DrawQr(t) ==
  /\ Holds(t) /\ task[t].pc = "draw"
  /\ Write([object[task[t].obj] EXCEPT !.png = task[t].qr])
  /\ Answer(t, "ready", 0, task[t].qr, 0)
  /\ line' = Tail(line)
  /\ UNCHANGED <<provider, page, now, faults>>

\* The status query takes no lock: it works on what it read.
AskStatus(t) ==
  /\ task[t].kind = "poll" /\ task[t].pc = "sent"
  /\ \/ /\ payment = Nothing
        /\ Answer(t, "none", 0, 0, 0)
     \/ /\ payment # Nothing
        /\ \E status \in IF payment.order \in paid THEN {"paid"} ELSE {"pending", "failed"} :
             task' = [task EXCEPT ![t].pc = "asked", ![t].obj = current, ![t].got = status,
                                ![t].since = payment.expires]
  /\ UNCHANGED <<provider, line, page, now, faults>>
  /\ Keep

\* The payment on file when the answer comes, or the copy of the one that was.
Current(t) ==
  IF payment = Nothing THEN [object[task[t].obj] EXCEPT !.expires = task[t].since] ELSE payment

QrExpired(t) == Left(Current(t)) = 0 /\ object[task[t].obj].qr # 0

\* Mutant: the order on file now is named, not the one asked about.
StatusKnown_Current(t) ==
  /\ task[t].got \in {"paid", "failed"}
  /\ Answer(t, task[t].got, Current(t).order, 0, Left(Current(t)))
  /\ UNCHANGED faults

StatusKnown(t) ==
  /\ task[t].got \in {"paid", "failed"}
  /\ Answer(t, task[t].got, task[t].obj, 0, Left(Current(t)))
  /\ UNCHANGED faults

StatusExpired(t) ==
  /\ QrExpired(t)
  /\ Answer(t, "expired", Current(t).order, 0, 0)
  /\ \/ task[t].got = "pending" /\ UNCHANGED faults
     \/ Fault

StatusOpen(t) ==
  \/ /\ task[t].got = "pending" /\ ~QrExpired(t)
     /\ Answer(t, "pending", Current(t).order, 0, Left(Current(t)))
     /\ UNCHANGED faults
  \/ /\ Fault
     /\ Answer(t, "unknown", Current(t).order, 0, Left(Current(t)))

AnswerStatus(t) ==
  /\ task[t].kind = "poll" /\ task[t].pc = "asked"
  /\ StatusKnown(t) \/ StatusExpired(t) \/ StatusOpen(t)
  /\ UNCHANGED <<provider, line, page, now>>
  /\ Keep

\* Mutant: the payment is dropped without the lock.
Close_Unlocked(t) ==
  /\ task[t].kind = "close" /\ task[t].pc = "wait"
  /\ File(0) /\ UNCHANGED object
  /\ Answer(t, "ready", 0, 0, 0)
  /\ line' = SelectSeq(line, LAMBDA u : u # t)
  /\ UNCHANGED <<provider, page, now, faults>>

Close(t) ==
  /\ Holds(t) /\ task[t].kind = "close" /\ task[t].pc = "wait"
  /\ File(0) /\ UNCHANGED object
  /\ Answer(t, "ready", 0, 0, 0)
  /\ line' = Tail(line)
  /\ UNCHANGED <<provider, page, now, faults>>

Serve(t) ==
  \/ CreateOrder(t) \/ Channels(t) \/ Precreate(t) \/ Activate(t) \/ RefreshCode(t)
  \/ GetQr(t) \/ DrawQr(t) \/ AskStatus(t) \/ AnswerStatus(t) \/ Close(t)

\* The process starts again: payments are gone, every request under way fails.
RestartServer ==
  /\ Fault
  /\ File(0) /\ UNCHANGED object
  /\ line' = <<>>
  /\ task' = [t \in Task |->
       IF task[t].pc \in {"free", "done"} THEN task[t]
       ELSE [Done(t, "lost", 0, 0, 0) EXCEPT !.kind = IF @ = "activate" THEN "order" ELSE @]]
  /\ UNCHANGED <<provider, page, now>>

-----------------------------------------------------------------------------
(* The page: dialog (app.js) and frame with the QR code (qr.js) *)

FrameKinds  == {"image", "poll", "refresh"}
DialogKinds == FrameKinds \cup {"order", "activate"}

\* The answers of p's requests of these kinds have no one to take them any more.
Stale(f, p, kinds) ==
  [t \in Task |-> IF f[t].page = p /\ f[t].kind \in kinds
                  THEN [f[t] EXCEPT !.fresh = FALSE] ELSE f[t]]

Freed(t) == [task EXCEPT ![t] = Free]

\* showPaymentResult loads the frame anew, with the amount of order o.
NewFrame(o, left) ==
  [amount |-> o, pic |-> 0, image |-> "todo", tries |-> 0, deadline |-> now + left,
   since |-> 0, ticking |-> FALSE, expired |-> FALSE, busy |-> FALSE, asking |-> FALSE]

Send(k, p) ==
  /\ FreeSlots # {}
  /\ task' = [task EXCEPT ![Slot] = Request(k, p)]

PageOnly == UNCHANGED <<provider, line, now, faults>> /\ Keep

\* openRecharge: the dialog is modal, so it is closed when this begins.
OpenRecharge(p) ==
  /\ ~page[p].open
  /\ Send("order", p)
  /\ page' = [page EXCEPT ![p] = [NoPage EXCEPT !.open = TRUE, !.closing = page[p].closing,
                                                !.paying = page[p].paying]]
  /\ PageOnly

\* closeRechargeDialog; nothing is sent while an earlier close is under way.
CloseRecharge(p) ==
  /\ page[p].open
  /\ IF page[p].closing
     THEN task' = Stale(task, p, DialogKinds)
     ELSE /\ FreeSlots # {}
          /\ task' = [Stale(task, p, DialogKinds) EXCEPT ![Slot] = Request("close", p)]
  /\ page' = [page EXCEPT ![p] = [NoPage EXCEPT !.closing = TRUE, !.paying = page[p].paying]]
  /\ PageOnly

\* The buttons of the payment methods are off while one of them works.
ChooseMethod(p) ==
  /\ page[p].open /\ page[p].buttons /\ ~page[p].paying
  /\ FreeSlots # {}
  /\ task' = [Stale(task, p, FrameKinds) EXCEPT ![Slot] = Request("pay", p)]
  /\ page' = [page EXCEPT ![p].paying = TRUE, ![p].frame = Nothing]
  /\ PageOnly

LoadQr(p) ==
  /\ page[p].frame # Nothing /\ page[p].frame.image = "todo"
  /\ Send("image", p)
  /\ page' = [page EXCEPT ![p].frame.image = "asked", ![p].frame.tries = @ + 1]
  /\ PageOnly

PollStatus(p) ==
  /\ page[p].frame # Nothing /\ page[p].frame.pic # 0
  /\ ~page[p].frame.busy /\ ~page[p].frame.expired /\ ~page[p].frame.asking
  /\ Send("poll", p)
  /\ page' = [page EXCEPT ![p].frame.asking = TRUE]
  /\ PageOnly

RefreshQr(p) ==
  /\ page[p].frame # Nothing /\ page[p].frame.expired /\ ~page[p].frame.busy
  /\ Send("refresh", p)
  /\ page' = [page EXCEPT ![p].frame.busy = TRUE, ![p].frame.expired = FALSE,
                          ![p].frame.since = now]
  /\ PageOnly

\* The countdown reaches zero.
MarkExpired(p) ==
  /\ page[p].frame # Nothing /\ page[p].frame.ticking /\ page[p].frame.deadline <= now
  /\ page' = [page EXCEPT ![p].frame.expired = TRUE, ![p].frame.ticking = FALSE]
  /\ UNCHANGED task
  /\ PageOnly

Took(t, kind) == task[t].pc = "done" /\ task[t].kind = kind /\ task[t].fresh

\* An order that failed, or was created and has a code or the buttons to get one.
OrderAnswered(t) ==
  /\ Took(t, "order") \/ Took(t, "activate")
  /\ LET p == task[t].page
         ready == task[t].got = "ready"
     IN /\ task' = Stale(Freed(t), p, FrameKinds)
        /\ page' = [page EXCEPT ![p].buttons = task[t].kind = "activate" /\ ~ready,
             ![p].frame = IF ready THEN NewFrame(task[t].order, task[t].left) ELSE Nothing]
  /\ PageOnly

\* The answer to a button goes to whatever dialog is open when it comes.
PayAnswered(t) ==
  /\ Took(t, "pay")
  /\ LET p == task[t].page
     IN /\ task' = Stale(Freed(t), p, FrameKinds)
        /\ page' = [page EXCEPT ![p].paying = FALSE,
             ![p].frame = IF page[p].open /\ task[t].got = "ready"
                          THEN NewFrame(task[t].order, task[t].left) ELSE Nothing]
  /\ PageOnly

CloseAnswered(t) ==
  /\ Took(t, "close")
  /\ task' = Freed(t)
  /\ page' = [page EXCEPT ![task[t].page].closing = FALSE]
  /\ PageOnly

\* The picture is there and the countdown starts, or it is loaded once more.
Loaded(f, q) ==
  [f EXCEPT !.image = "shown", !.pic = q, !.tries = 0, !.busy = FALSE,
            !.expired = f.deadline <= now, !.ticking = f.deadline > now]

MoreTries(f) == f.tries < Tries

ImageAnswered(t) ==
  /\ Took(t, "image")
  /\ LET p == task[t].page
         f == page[p].frame
     IN IF task[t].got = "ready"
        THEN /\ task' = Freed(t)
             /\ page' = [page EXCEPT ![p].frame = Loaded(f, task[t].qr)]
        ELSE IF MoreTries(f)
        THEN /\ task' = Freed(t)
             /\ page' = [page EXCEPT ![p].frame.image = "todo"]
        ELSE /\ task' = Stale(Freed(t), p, FrameKinds)
             /\ page' = [page EXCEPT ![p].frame = Nothing]
  /\ PageOnly

\* syncCountdownFromBackend restarts the countdown when it is three seconds off.
Synced(f, left) ==
  IF f.expired THEN {f}
  ELSE IF left = 0
  THEN {[f EXCEPT !.deadline = now, !.expired = TRUE, !.ticking = FALSE]}
  ELSE {[f EXCEPT !.deadline = now + left, !.ticking = b] : b \in {f.ticking, TRUE}}

\* Mutant: statusInFlight stays set.
Answered_KeepsAsking(f) == f

Answered(f) == [f EXCEPT !.asking = FALSE]

StatusAnswered(t) ==
  /\ Took(t, "poll")
  /\ LET p == task[t].page
         f == Answered(page[p].frame)
     IN \/ /\ task[t].got = "paid"
           /\ task' = Stale(Freed(t), p, FrameKinds)
           /\ page' = [page EXCEPT ![p].frame = Nothing, ![p].success = TRUE]
        \/ /\ task[t].got = "expired"
           /\ task' = Freed(t)
           /\ page' = [page EXCEPT ![p].frame =
                [f EXCEPT !.expired = TRUE, !.ticking = FALSE,
                          !.deadline = IF f.expired THEN @ ELSE now]]
        \/ /\ task[t].got \in {"pending", "failed", "unknown"}
           /\ task' = Freed(t)
           /\ \E g \in Synced(f, task[t].left) : page' = [page EXCEPT ![p].frame = g]
        \/ /\ task[t].got \in {"none", "lost"}
           /\ task' = Freed(t)
           /\ page' = [page EXCEPT ![p].frame = f]
  /\ PageOnly

RefreshAnswered(t) ==
  /\ Took(t, "refresh")
  /\ LET p == task[t].page
         f == page[p].frame
     IN page' = [page EXCEPT ![p].frame =
          IF task[t].got = "ready"
          THEN [f EXCEPT !.image = "todo", !.tries = 0,
                         !.deadline = Min2(now + task[t].left, f.since + Valid), !.since = 0]
          ELSE [f EXCEPT !.busy = FALSE, !.expired = TRUE, !.since = 0]]
  /\ task' = Freed(t)
  /\ PageOnly

\* An answer for a dialog or a frame that is gone.
Dropped(t) ==
  /\ task[t].pc = "done" /\ ~task[t].fresh
  /\ task' = Freed(t)
  /\ UNCHANGED page
  /\ PageOnly

Receive(t) ==
  \/ OrderAnswered(t) \/ PayAnswered(t) \/ CloseAnswered(t) \/ ImageAnswered(t)
  \/ StatusAnswered(t) \/ RefreshAnswered(t) \/ Dropped(t)

-----------------------------------------------------------------------------
(* Payment and time *)

\* Someone pays with the code on the page, while the provider takes it.
PayOrder(p) ==
  /\ page[p].frame # Nothing /\ page[p].frame.pic # 0
  /\ LET q == qrs[page[p].frame.pic]
     IN /\ now < q.at + Valid
        /\ q.order \notin paid
        /\ paid' = paid \cup {q.order}
  /\ UNCHANGED <<orders, qrs, line, task, page, now, faults>>
  /\ Keep

Tick ==
  /\ now < MaxTime
  /\ now' = now + 1
  /\ UNCHANGED <<provider, line, task, page, faults>>
  /\ Keep

PaymentNext ==
  \/ \E t \in Task : Arrive(t) \/ Serve(t) \/ Receive(t)
  \/ \E p \in Page : OpenRecharge(p) \/ CloseRecharge(p) \/ ChooseMethod(p) \/ LoadQr(p)
                       \/ PollStatus(p) \/ RefreshQr(p) \/ MarkExpired(p) \/ PayOrder(p)
  \/ RestartServer
  \/ Tick

\* Requests arrive, are served and answered; the frame polls on its timer.
PaymentFairness ==
  /\ \A t \in Task : WF_paymentVars(Arrive(t) \/ Serve(t) \/ Receive(t))
  /\ \A p \in Page : SF_paymentVars(PollStatus(p))

PaymentSpec == PaymentInit /\ [][PaymentNext]_paymentVars /\ PaymentFairness

-----------------------------------------------------------------------------
(* Properties *)

Order == 0..MaxOrders
Code  == 0..MaxQrs
Time  == 0..(MaxTime + Valid)

PaymentType == [order : 1..MaxOrders, qr : Code, expires : Time, png : Code, capped : BOOLEAN]

TaskType ==
  [pc : {"free", "sent", "wait", "channels", "asked", "again", "askedAgain", "draw", "done"},
   kind : DialogKinds \cup {"pay", "close", Nothing}, page : Page \cup {Nothing}, fresh : BOOLEAN,
   obj : Order, order : Order, qr : Code, prev : Code, since : Time,
   got : {"ready", "noqr", "unchanged", "failed", "lost", "none", "paid", "pending",
          "expired", "unknown", Nothing},
   left : 0..Valid]

FrameType ==
  [amount : Order, pic : Code, image : {"todo", "asked", "shown"}, tries : 0..Tries,
   deadline : Time, since : Time, ticking : BOOLEAN, expired : BOOLEAN, busy : BOOLEAN,
   asking : BOOLEAN]

ASSUME NothingAssumption == Nothing \notin FrameType

PageType ==
  [open : BOOLEAN, buttons : BOOLEAN, closing : BOOLEAN, paying : BOOLEAN,
   success : BOOLEAN, frame : FrameType \cup {Nothing}]

\* Types of the provider and of the server's memory, with the requests in it.
ServerTypes ==
  /\ orders \in Order
  /\ qrs \in Seq([order : 1..MaxOrders, at : 0..MaxTime]) /\ Len(qrs) <= MaxQrs
  /\ object \in [1..MaxOrders -> PaymentType]
  /\ \A o \in 1..MaxOrders : object[o].order = o
  /\ current \in Order
  /\ line \in Seq(Task)
  /\ task \in [Task -> TaskType]
  /\ now \in 0..MaxTime
  /\ faults \in 0..MaxFaults
  /\ gone \subseteq 1..MaxOrders

PaymentTypeOK ==
  /\ ServerTypes /\ Len(line) <= Slots
  /\ page \in [Page -> PageType]
  /\ paid \subseteq 1..MaxOrders

\* An order that was closed or replaced never comes back as the account's
\* payment, whatever was under way for it: activation, refresh and picture
\* write back the payment they read before their call (_cookie_payments).
GoneStaysGone == payment # Nothing => payment.order \notin gone

\* A status answer "paid" names an order that is paid, although another order
\* may have replaced it while the query was under way without the lock.
PaidIsPaid ==
  \A t \in Task : task[t].kind = "poll" /\ task[t].got = "paid" /\ task[t].pc = "done"
                 => task[t].order \in paid

\* The code on file was issued for the order on file, and a picture on file is
\* the picture of that code, not of the one before a refresh.
CodeFits ==
  payment # Nothing =>
    /\ payment.qr # 0 => payment.qr \in CodesOf(payment.order)
    /\ payment.png \in {0, payment.qr}

\* After a refresh the code is not reported valid for longer than the provider
\* takes it, however long the refresh waited for its answers.  (After a lost
\* answer it may be: the next refresh then takes an older code for a new one.)
RefreshHonest ==
  faults = 0 /\ payment # Nothing /\ payment.capped => payment.expires <= qrs[payment.qr].at + Valid

\* Every request is answered and its answer taken: the order request, which
\* takes the lock twice, and the refresh, which asks twice, included.
RequestsEnd == \A t \in Task : task[t].pc # "free" ~> task[t].pc = "free"

\* The frame of p shows a valid code and polls for the order on file.
Watching(p) ==
  LET f == page[p].frame
  IN /\ f # Nothing /\ payment # Nothing
     /\ f.pic # 0 /\ ~f.busy /\ ~f.expired
     /\ payment.order = qrs[f.pic].order

\* A payment made with the code on the page is reported there, unless the code
\* expires, the order is replaced or the dialog is closed first.
PaidSeen ==
  \A p \in Page :
    (Watching(p) /\ payment.order \in paid) ~> (page[p].success \/ ~Watching(p))

\* The code on the page is for the amount the page shows (app.js: "the order is
\* created and the payment data of the chosen method loaded").
AmountOfCode ==
  \A p \in Page : page[p].frame # Nothing /\ page[p].frame.pic # 0
                 => page[p].frame.pic \in CodesOf(page[p].frame.amount)

=============================================================================
