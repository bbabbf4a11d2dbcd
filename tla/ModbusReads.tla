---------------------------- MODULE ModbusReads ----------------------------
(***************************************************************************)
(* POST /modbus/read_registers (modbus_routes.py) and the batch of reads   *)
(* behind it (modbus_service.py).  The route validates a request, and      *)
(* hands it to the event loop's executor with asyncio.to_thread: requests  *)
(* wait in a queue for one of Threads threads, and each thread reads its   *)
(* registers one operation after the other.  The device answers with       *)
(* words, or the read fails or raises; a failure is a reading of its own.  *)
(*                                                                         *)
(* A word is a number modulo M (2^16), decoded big-endian, the first word  *)
(* being the high one.  Scales and offsets are integers here, and a float  *)
(* is finite up to MaxFloat.  NaN stands for the floats JSON has no number *)
(* for: infinities, read or computed, and NaNs.                            *)
(***************************************************************************)
EXTENDS Integers, Sequences, FiniteSets

CONSTANTS
  Requests,        \* HTTP requests
  Body,            \* Body[r]: the operations of request r, as it was sent
  Threads,         \* threads of the executor
  MAX_REGS_PER_OPERATION,         \* 125
  MAX_OPERATIONS_PER_REQUEST,     \* 32
  M,               \* words are 0 .. M - 1
  Answers,         \* word lists a device may send: as many as asked for, or fewer
  FloatOf,         \* struct's ">f": a value, or NaN, for each pair of words
  MaxFloat,        \* the largest finite float
  None, NaN

Decodes == {"raw", "uint16", "int16", "uint32", "int32", "float32"}

Op == [count : Int, decode : Decodes, scale : Int, offset : Int]

ASSUME ModbusAssumption ==
  /\ Body \in [Requests -> Seq(Op)]
  /\ Threads \in Nat \ {0}
  /\ MAX_REGS_PER_OPERATION \in Nat /\ MAX_OPERATIONS_PER_REQUEST \in Nat
  /\ M \in Nat \ {0} /\ M % 2 = 0
  /\ Answers \subseteq Seq(Nat)
  /\ MaxFloat \in Nat /\ M * M <= MaxFloat
  /\ FloatOf \in [0 .. M * M - 1 -> -MaxFloat .. MaxFloat \cup {NaN}]
  /\ None \notin Int /\ NaN \notin Int /\ None # NaN

VARIABLES
  stage,           \* of each request: "sent", "queued", "running", "read", "answered"
  queue,           \* requests waiting for a thread, oldest first
  next,            \* the operation its thread comes to
  readings,        \* what its operations gave
  status           \* HTTP status of its answer

vars == <<stage, queue, next, readings, status>>

-----------------------------------------------------------------------------
(* Decoding *)

Wide == {"uint32", "int32", "float32"}

\* Mutant of Signed: the largest positive number is taken for a negative one.
SignedOffByOne(n, modulus) == IF n < modulus \div 2 - 1 THEN n ELSE n - modulus

\* struct.unpack of a signed integer: two's complement.
Signed(n, modulus) == IF n < modulus \div 2 THEN n ELSE n - modulus

\* w & 0xFFFF
Word(w) == w % M

Pair(words) == Word(words[1]) * M + Word(words[2])

\* Decoding raises ModbusServiceError.
Undecodable(words, decode) ==
  \/ decode # "raw" /\ words = <<>>
  \/ decode \in Wide /\ Len(words) < 2

DecodeWords(words, decode) ==
  CASE decode = "raw"     -> None
    [] decode = "uint16"  -> Word(words[1])
    [] decode = "int16"   -> Signed(Word(words[1]), M)
    [] decode = "uint32"  -> Pair(words)
    [] decode = "int32"   -> Signed(Pair(words), M * M)
    [] decode = "float32" -> FloatOf[Pair(words)]

\* A finite float, or infinity.
Finite(n) == IF n \in -MaxFloat .. MaxFloat THEN n ELSE NaN

Times(v, n) == IF v = NaN THEN NaN ELSE Finite(v * n)
Plus(v, n) == IF v = NaN THEN NaN ELSE Finite(v + n)

ScaleOffset(v, op) == IF v = None THEN None ELSE Plus(Times(v, op.scale), op.offset)

\* A reading of operation n, in the order of the request.
Reading(n, words, decoded, error) ==
  [op |-> n, words |-> words, decoded |-> decoded, error |-> error]

-----------------------------------------------------------------------------
(* The route *)

\* Mutant of ValidOp: the model has no decode_needs_word_count.
ValidCount(op) == op.count \in 1 .. MAX_REGS_PER_OPERATION

ValidOp(op) == op.count \in 1 .. MAX_REGS_PER_OPERATION /\ (op.decode \in Wide => op.count >= 2)

Valid(body) ==
  /\ Len(body) \in 1 .. MAX_OPERATIONS_PER_REQUEST
  /\ \A i \in DOMAIN body : ValidOp(body[i])

Init ==
  /\ stage = [r \in Requests |-> "sent"]
  /\ queue = <<>>
  /\ next = [r \in Requests |-> 1]
  /\ readings = [r \in Requests |-> <<>>]
  /\ status = [r \in Requests |-> None]

Answer(r, code) ==
  /\ stage' = [stage EXCEPT ![r] = "answered"]
  /\ status' = [status EXCEPT ![r] = code]

Refuse(r) ==
  /\ stage[r] = "sent"
  /\ ~Valid(Body[r])
  /\ Answer(r, 422)
  /\ UNCHANGED <<queue, next, readings>>

\* asyncio.to_thread: the executor queues the call.
Submit(r) ==
  /\ stage[r] = "sent"
  /\ Valid(Body[r])
  /\ stage' = [stage EXCEPT ![r] = "queued"]
  /\ queue' = Append(queue, r)
  /\ UNCHANGED <<next, readings, status>>

-----------------------------------------------------------------------------
(* A thread of the executor: execute_modbus_read_request *)

\* Mutant of Running: a read that raises takes its thread with it.
RunningOrLost ==
  {r \in Requests : \/ stage[r] = "running"
                    \/ \E i \in DOMAIN readings[r] : readings[r][i].error = "modbus_exception"}

Running == {r \in Requests : stage[r] = "running"}

\* Mutant of TakeTurn: the call stays in the queue.
TakeTurnTwice(r) == queue # <<>> /\ r = Head(queue) /\ UNCHANGED queue

TakeTurn(r) == queue # <<>> /\ r = Head(queue) /\ queue' = Tail(queue)

Begin(r) ==
  /\ Cardinality(Running) < Threads
  /\ TakeTurn(r)
  /\ IF Len(Body[r]) > MAX_OPERATIONS_PER_REQUEST
     THEN Answer(r, 400)
     ELSE stage' = [stage EXCEPT ![r] = "running"] /\ UNCHANGED status
  /\ UNCHANGED <<next, readings>>

\* The loop's own checks of an operation, all made before its read.
Accepted(op) ==
  /\ op.count \in 1 .. MAX_REGS_PER_OPERATION
  /\ op.decode \in Wide => op.count >= 2

\* A reading joins the list and the loop goes on.
Record(r, reading) ==
  /\ readings' = [readings EXCEPT ![r] = Append(@, reading)]
  /\ next' = [next EXCEPT ![r] = @ + 1]
  /\ UNCHANGED <<stage, queue, status>>

\* Mutant of RecordFailure: a read that failed is not reported.
PassOver(r, reading) ==
  /\ next' = [next EXCEPT ![r] = @ + 1]
  /\ UNCHANGED <<stage, queue, readings, status>>

RecordFailure(r, reading) == Record(r, reading)

Operation(r) ==
  LET n == next[r]
      op == Body[r][n]
  IN  /\ stage[r] = "running"
      /\ n <= Len(Body[r])
      /\ IF ~Accepted(op)
         THEN Answer(r, 400) /\ UNCHANGED <<queue, next, readings>>
         ELSE \/ \E words \in {w \in Answers : Len(w) <= op.count} :
                   Record(r, IF Undecodable(words, op.decode)
                             THEN Reading(n, words, None, "undecodable")
                             ELSE Reading(n, words,
                                    ScaleOffset(DecodeWords(words, op.decode), op), "none"))
              \/ \E error \in {"modbus_exception", "read_failed_or_timeout"} :
                   RecordFailure(r, Reading(n, None, None, error))

\* The thread is free, the result returns to the route.
Return(r) ==
  /\ stage[r] = "running"
  /\ next[r] > Len(Body[r])
  /\ stage' = [stage EXCEPT ![r] = "read"]
  /\ UNCHANGED <<queue, next, readings, status>>

\* The framework renders the answer; one that holds a NaN it may refuse, depending on
\* its version, which is past the handler's try.
Unrenderable(r) == \E i \in DOMAIN readings[r] : readings[r][i].decoded = NaN

Render(r) ==
  /\ stage[r] = "read"
  /\ \/ Answer(r, 200)
     \/ Unrenderable(r) /\ Answer(r, 500)
  /\ UNCHANGED <<queue, next, readings>>

Serve(r) == Begin(r) \/ Operation(r) \/ Return(r) \/ Render(r)

Next == \E r \in Requests : Refuse(r) \/ Submit(r) \/ Serve(r)

\* Threads run, and pyModbusTCP gives up a read after its timeout (0.5 to 60 s).
Spec == Init /\ [][Next]_vars /\ \A r \in Requests : WF_vars(Serve(r))

-----------------------------------------------------------------------------
(* Properties *)

Decoded == -MaxFloat .. MaxFloat \cup {None, NaN}

Entries == [op : Nat, words : Seq(Nat) \cup {None}, decoded : Decoded,
            error : {"none", "undecodable", "modbus_exception", "read_failed_or_timeout"}]

\* The types, and of the queue that it holds the waiting requests, each once.
TypeOK ==
  /\ stage \in [Requests -> {"sent", "queued", "running", "read", "answered"}]
  /\ queue \in Seq(Requests)
  /\ \A r \in Requests : stage[r] = "queued" <=> \E i \in DOMAIN queue : queue[i] = r
  /\ \A i, j \in DOMAIN queue : queue[i] = queue[j] => i = j
  /\ next \in [Requests -> Nat]
  /\ readings \in [Requests -> Seq(Entries)]
  /\ status \in [Requests -> {None, 200, 400, 422, 500}]

\* No half-read batch: a request is answered with one reading for each operation it
\* asked for, in their order, failed ones included, or it was refused before the device
\* was asked anything (modbus_routes.py:69-75, 113-117; modbus_service.py:83-86, 108-118).  Only
\* a value that JSON cannot carry loses a batch that was read.  That a failed read is a
\* reading inside a 200 is what the code does; the docstring at
\* modbus_service.py:27 says of such a failure "wrapped as HTTP 400 in routes".
AnswersComplete ==
  \A r \in Requests : stage[r] = "answered" =>
    \/ status[r] = 422 /\ readings[r] = <<>>
    \/ /\ status[r] = 200 \/ (status[r] = 500 /\ Unrenderable(r))
       /\ Len(readings[r]) = Len(Body[r])
       /\ \A i \in DOMAIN readings[r] : readings[r][i].op = i

\* v is n, but for a multiple of the modulus, in the range of a signed number.
SignedValue(v, n, modulus) ==
  /\ -modulus <= 2 * v /\ 2 * v < modulus
  /\ v = n \/ v = n - modulus

\* What a decoded reading means, for an operation without scale or offset: the numbers
\* the declared type has for the words, the first word being the high one
\* (modbus_service.py:30-53, docs/modbus-tcp.md:31).
DecodedAsDeclared ==
  \A r \in Requests : \A i \in DOMAIN readings[r] :
    LET e == readings[r][i]
        op == Body[r][e.op]
        word(k) == Word(e.words[k])
    IN  e.error = "none" /\ op.scale = 1 /\ op.offset = 0 =>
          CASE op.decode = "raw"    -> e.decoded = None
            [] op.decode = "uint16" -> e.decoded = word(1)
            [] op.decode = "int16"  -> SignedValue(e.decoded, word(1), M)
            [] op.decode = "uint32" -> e.decoded \div M = word(1) /\ e.decoded % M = word(2)
            [] op.decode = "int32"  -> SignedValue(e.decoded, M * word(1) + word(2), M * M)
            [] OTHER -> e.decoded = FloatOf[M * word(1) + word(2)]

\* Every request that waits for a thread is answered, whatever its device does and
\* however many wait before it (modbus_routes.py:148).
EveryRequestAnswered ==
  \A r \in Requests : stage[r] = "queued" ~> stage[r] = "answered"

=============================================================================
