------------------------- MODULE ModbusReadsProofs -------------------------
(***************************************************************************)
(* For any requests, any number of threads and words of any even modulus:  *)
(* a request is answered whole or refused before its first read, and what  *)
(* is decoded is what the declared type means.                             *)
(***************************************************************************)
EXTENDS ModbusReads, FiniteSetTheorems, TLAPS

\* How far the batch of a request has come.
Progress ==
  \A r \in Requests :
    /\ stage[r] \in {"sent", "queued"} => readings[r] = <<>> /\ next[r] = 1
    /\ stage[r] \in {"queued", "running", "read"} => Valid(Body[r])
    /\ stage[r] \in {"running", "read"} => Len(readings[r]) = next[r] - 1
    /\ stage[r] = "running" => next[r] \in 1 .. Len(Body[r]) + 1
    /\ stage[r] = "read" => next[r] = Len(Body[r]) + 1

\* Where each reading comes from.
Witnessed(r, e) ==
  /\ e.op \in DOMAIN Body[r]
  /\ e.error = "none" =>
       LET op == Body[r][e.op] IN
       /\ e.words \in Seq(Nat)
       /\ ~Undecodable(e.words, op.decode)
       /\ e.decoded = ScaleOffset(DecodeWords(e.words, op.decode), op)

ReadingsWitnessed ==
  \A r \in Requests : \A i \in DOMAIN readings[r] :
    readings[r][i].op = i /\ Witnessed(r, readings[r][i])

IInv == TypeOK /\ Progress /\ ReadingsWitnessed /\ AnswersComplete

-----------------------------------------------------------------------------
(* Decoding *)

\* Two's complement: struct.unpack(">h") and (">i") (modbus_service.py:42, 50-51).
LEMMA SignedCorrect ==
  ASSUME NEW m \in Nat, m % 2 = 0, NEW n \in 0 .. m - 1
  PROVE  Signed(n, m) \in Int /\ SignedValue(Signed(n, m), n, m)
<1>1. m = 2 * (m \div 2) /\ m \div 2 \in Nat
  OBVIOUS
<1> QED
  BY <1>1 DEF Signed, SignedValue

LEMMA TimesMonotone ==
  ASSUME NEW a \in Nat, NEW b \in Nat, NEW m \in Nat, a <= b
  PROVE  a * m <= b * m
<1>1. PICK d \in Nat : b = a + d
  <2>1. b - a \in Nat /\ b = a + (b - a)
    OBVIOUS
  <2> QED
    BY <2>1
<1>2. b * m = a * m + d * m
  BY <1>1
<1>3. d * m \in Nat /\ a * m \in Nat
  OBVIOUS
<1> QED
  BY <1>2, <1>3

\* Division undoes the pairing of two words.
LEMMA PairParts ==
  ASSUME NEW hi \in 0 .. M - 1, NEW lo \in 0 .. M - 1
  PROVE  /\ hi * M + lo \in 0 .. M * M - 1
         /\ (hi * M + lo) \div M = hi
         /\ (hi * M + lo) % M = lo
<1>0. M \in Nat \ {0}
  BY ModbusAssumption
<1> DEFINE n == hi * M + lo
           q == n \div M
           w == n % M
<1>1. n \in Nat /\ hi * M \in Nat
  BY <1>0
<1>2. q \in Nat /\ w \in 0 .. M - 1 /\ n = q * M + w
  BY <1>0, <1>1
<1>3. q = hi
  <2>1. CASE q > hi
    <3>1. (hi + 1) * M <= q * M
      BY <1>0, <1>2, <2>1, TimesMonotone
    <3>2. (hi + 1) * M = hi * M + M
      BY <1>0
    <3> QED
      BY <1>0, <1>1, <1>2, <3>1, <3>2
  <2>2. CASE q < hi
    <3>1. (q + 1) * M <= hi * M
      BY <1>0, <1>2, <2>2, TimesMonotone
    <3>2. (q + 1) * M = q * M + M
      BY <1>0, <1>2
    <3> QED
      BY <1>0, <1>1, <1>2, <3>1, <3>2
  <2> QED
    BY <1>2, <2>1, <2>2
<1>4. w = lo
  BY <1>0, <1>1, <1>2, <1>3
<1>5. n <= M * M - 1
  <2>1. hi * M <= (M - 1) * M
    BY <1>0, TimesMonotone
  <2>2. (M - 1) * M = M * M - M
    BY <1>0
  <2> QED
    BY <1>0, <2>1, <2>2
<1> QED
  BY <1>0, <1>1, <1>3, <1>4, <1>5

\* The halves of the words of a 32-bit value have an even square.
LEMMA SquareEven == M * M \in Nat /\ (M * M) % 2 = 0
<1>1. PICK k \in Nat : M = 2 * k
  <2>1. M = 2 * (M \div 2) /\ M \div 2 \in Nat
    BY ModbusAssumption
  <2> QED
    BY <2>1
<1>2. M * M = 2 * (k * M) /\ k * M \in Nat
  BY <1>1
<1> DEFINE h == k * M
<1> HIDE DEF h
<1>3. h \in Nat /\ M * M = 2 * h
  BY <1>2 DEF h
<1> QED
  BY <1>3

LEMMA WordRange ==
  ASSUME NEW w \in Nat
  PROVE  Word(w) \in 0 .. M - 1
BY ModbusAssumption DEF Word

\* Words and pairs of words are within the floats.
LEMMA NumbersFinite ==
  ASSUME NEW n \in Int, NEW m \in {M, M * M}, -m <= n, n < m
  PROVE  n \in -MaxFloat .. MaxFloat
<1>1. M \in Nat /\ M * M \in Nat /\ M <= M * M
  <2>1. M \in Nat /\ 1 <= M
    BY ModbusAssumption
  <2>2. 1 * M <= M * M
    BY <2>1, TimesMonotone
  <2> QED
    BY <2>1, <2>2
<1>2. MaxFloat \in Nat /\ M * M <= MaxFloat
  BY ModbusAssumption
<1> QED
  BY <1>1, <1>2

LEMMA SignedFinite ==
  ASSUME NEW v \in Int, NEW n \in Int, NEW m \in {M, M * M}, SignedValue(v, n, m)
  PROVE  v \in -MaxFloat .. MaxFloat
<1>1. m \in Nat
  BY SquareEven, ModbusAssumption
<1>2. -m <= 2 * v /\ 2 * v < m
  BY DEF SignedValue
<1>3. -m <= v /\ v < m
  BY <1>1, <1>2
<1> QED
  BY <1>3, NumbersFinite

\* What a decodable word list decodes to, type by type (modbus_service.py:30-53).
LEMMA DecodeMeans ==
  ASSUME NEW words \in Seq(Nat), NEW decode \in Decodes, ~Undecodable(words, decode)
  PROVE  LET v == DecodeWords(words, decode) IN
         /\ v \in Decoded
         /\ decode = "raw"     => v = None
         /\ decode = "uint16"  => v = Word(words[1])
         /\ decode = "int16"   => SignedValue(v, Word(words[1]), M)
         /\ decode = "uint32"  => v \div M = Word(words[1]) /\ v % M = Word(words[2])
         /\ decode = "int32"   => SignedValue(v, M * Word(words[1]) + Word(words[2]), M * M)
         /\ decode = "float32" => v = FloatOf[M * Word(words[1]) + Word(words[2])]
         /\ decode # "raw"     => v # None
<1> USE ModbusAssumption
<1>1. CASE decode = "raw"
  BY <1>1 DEF DecodeWords, Decoded
<1>2. CASE decode \in {"uint16", "int16"}
  <2>1. words[1] \in Nat
    BY <1>2 DEF Undecodable
  <2>2. Word(words[1]) \in 0 .. M - 1
    BY <2>1, WordRange
  <2>3. CASE decode = "uint16"
    BY <2>2, <2>3, NumbersFinite DEF DecodeWords, Decoded
  <2>4. CASE decode = "int16"
    <3>1. DecodeWords(words, decode) = Signed(Word(words[1]), M)
      BY <2>4 DEF DecodeWords
    <3> QED
      <4>1. Signed(Word(words[1]), M) \in Int /\ SignedValue(Signed(Word(words[1]), M), Word(words[1]), M)
        BY <2>2, SignedCorrect
      <4>2. Signed(Word(words[1]), M) \in -MaxFloat .. MaxFloat
        BY <2>2, <4>1, SignedFinite
      <4> QED
        BY <2>2, <2>4, <3>1, <4>1, <4>2 DEF Decoded
  <2> QED
    BY <1>2, <2>3, <2>4
<1>3. CASE decode \in Wide
  <2> DEFINE hi == Word(words[1])
             lo == Word(words[2])
  <2>1. words[1] \in Nat /\ words[2] \in Nat
    BY <1>3 DEF Undecodable
  <2>2. hi \in 0 .. M - 1 /\ lo \in 0 .. M - 1
    BY <2>1, WordRange
  <2> HIDE DEF hi, lo
  <2>3. /\ hi * M + lo \in 0 .. M * M - 1
        /\ (hi * M + lo) \div M = hi
        /\ (hi * M + lo) % M = lo
    BY <2>2, PairParts
  <2>4. hi * M = M * hi
    BY <2>2
  <2>5. Pair(words) = hi * M + lo
    BY DEF Pair, hi, lo
  <2> DEFINE n == hi * M + lo
  <2> HIDE DEF n
  <2>6. /\ n \in 0 .. M * M - 1 /\ n \div M = hi /\ n % M = lo
        /\ Pair(words) = n /\ n = M * hi + lo
    BY <2>3, <2>4, <2>5 DEF n
  <2>n. n \in -MaxFloat .. MaxFloat
    <3> DEFINE sq == M * M
    <3>1. sq \in Nat
      BY SquareEven
    <3>2. sq \in {M, M * M} /\ n \in 0 .. sq - 1
      BY <2>6
    <3> HIDE DEF sq
    <3>3. n \in Int /\ -sq <= n /\ n < sq
      BY <3>1, <3>2
    <3> QED
      BY <3>2, <3>3, NumbersFinite
  <2>7. CASE decode = "uint32"
    BY <2>6, <2>7, <2>n DEF DecodeWords, Decoded, hi, lo
  <2>8. CASE decode = "int32"
    <3>1. SignedValue(Signed(n, M * M), n, M * M) /\ Signed(n, M * M) \in Int
      BY <2>6, SquareEven, SignedCorrect
    <3>2. DecodeWords(words, decode) = Signed(n, M * M)
      BY <2>6, <2>8 DEF DecodeWords
    <3> QED
      <4>1. Signed(n, M * M) \in -MaxFloat .. MaxFloat
        <5>1. n \in Int
          BY <2>n
        <5> QED
          BY <3>1, <5>1, SignedFinite
      <4> QED
        BY <2>6, <2>8, <3>1, <3>2, <4>1 DEF Decoded, hi, lo
  <2>9. CASE decode = "float32"
    <3>1. DecodeWords(words, decode) = FloatOf[n]
      BY <2>6, <2>9 DEF DecodeWords
    <3>2. FloatOf[n] \in -MaxFloat .. MaxFloat \cup {NaN}
      BY <2>6
    <3>3. None \notin -MaxFloat .. MaxFloat \cup {NaN}
      OBVIOUS
    <3> QED
      BY <2>6, <2>9, <3>1, <3>2, <3>3 DEF Decoded, hi, lo
  <2> QED
    BY <1>3, <2>7, <2>8, <2>9 DEF Wide
<1> QED
  BY <1>1, <1>2, <1>3 DEF Decodes, Wide

LEMMA ScaleOffsetType ==
  ASSUME NEW v \in Decoded, NEW op \in Op
  PROVE  ScaleOffset(v, op) \in Decoded
<1>1. op.scale \in Int /\ op.offset \in Int
  BY DEF Op
<1>2. \A n \in Int : Finite(n) \in Decoded \ {None}
  BY ModbusAssumption DEF Finite, Decoded
<1>3. v \in {None, NaN} \/ v * op.scale \in Int
  BY <1>1, ModbusAssumption DEF Decoded
<1>4. Times(v, op.scale) \in Decoded \ {None} \/ v = None
  BY <1>1, <1>2, <1>3, ModbusAssumption DEF Times, Decoded
<1> QED
  BY <1>1, <1>2, <1>4, ModbusAssumption DEF ScaleOffset, Plus, Decoded

\* What has neither scale nor offset is left as it is.
LEMMA ScaleOffsetNothing ==
  ASSUME NEW v \in Decoded, NEW op \in Op,
         op.scale = 1, op.offset = 0
  PROVE  ScaleOffset(v, op) = v
<1>1. CASE v \in {None, NaN}
  BY <1>1, ModbusAssumption DEF ScaleOffset, Times, Plus
<1>2. CASE v \in -MaxFloat .. MaxFloat
  <2>1. v * 1 = v /\ v + 0 = v /\ v \in Int
    BY <1>2, ModbusAssumption
  <2>2. v # NaN /\ v # None
    BY <2>1, ModbusAssumption
  <2>3. Times(v, op.scale) = v
    BY <1>2, <2>1, <2>2 DEF Times, Finite
  <2> QED
    BY <1>2, <2>1, <2>2, <2>3 DEF ScaleOffset, Plus, Finite
<1> QED
  BY <1>1, <1>2 DEF Decoded

-----------------------------------------------------------------------------
(* The batch *)

LEMMA InitIInv == Init => IInv
BY ModbusAssumption
   DEF Init, IInv, TypeOK, Entries, Progress, ReadingsWitnessed, AnswersComplete

\* A refusal before the queue.
LEMMA RefuseIInv ==
  ASSUME IInv, NEW r \in Requests, Refuse(r)
  PROVE  IInv'
<1>1. /\ stage[r] = "sent" /\ stage' = [stage EXCEPT ![r] = "answered"]
      /\ status' = [status EXCEPT ![r] = 422]
      /\ UNCHANGED <<queue, next, readings>>
  BY DEF Refuse, Answer
<1>2. TypeOK'
  BY <1>1 DEF IInv, TypeOK
<1>3. Progress' /\ ReadingsWitnessed'
  BY <1>1 DEF IInv, TypeOK, Progress, ReadingsWitnessed
<1>4. readings[r] = <<>>
  BY <1>1 DEF IInv, Progress
<1>5. AnswersComplete'
  BY <1>1, <1>4 DEF IInv, TypeOK, AnswersComplete, Unrenderable
<1> QED
  BY <1>2, <1>3, <1>5 DEF IInv

LEMMA SubmitIInv ==
  ASSUME IInv, NEW r \in Requests, Submit(r)
  PROVE  IInv'
<1>1. /\ stage[r] = "sent" /\ stage' = [stage EXCEPT ![r] = "queued"]
      /\ queue' = Append(queue, r) /\ Valid(Body[r])
      /\ UNCHANGED <<next, readings, status>>
  BY DEF Submit
<1>2. /\ queue \in Seq(Requests) /\ queue' \in Seq(Requests)
      /\ Len(queue') = Len(queue) + 1 /\ Len(queue) \in Nat
      /\ queue'[Len(queue) + 1] = r
      /\ \A i \in DOMAIN queue : queue'[i] = queue[i] /\ i \in DOMAIN queue'
      /\ DOMAIN queue' = DOMAIN queue \cup {Len(queue) + 1}
      /\ Len(queue) + 1 \notin DOMAIN queue
  BY <1>1 DEF IInv, TypeOK
<1>3. ~\E i \in DOMAIN queue : queue[i] = r
  BY <1>1 DEF IInv, TypeOK
<1>4. \A q \in Requests : stage'[q] = "queued" <=> \E i \in DOMAIN queue' : queue'[i] = q
  <2>1. ASSUME NEW q \in Requests, q # r
        PROVE  stage'[q] = "queued" <=> \E i \in DOMAIN queue' : queue'[i] = q
    <3>1. stage'[q] = "queued" <=> \E i \in DOMAIN queue : queue[i] = q
      BY <1>1, <2>1 DEF IInv, TypeOK
    <3> QED
      BY <1>2, <2>1, <3>1
  <2>2. stage'[r] = "queued" /\ Len(queue) + 1 \in DOMAIN queue'
    BY <1>1, <1>2 DEF IInv, TypeOK
  <2> QED
    BY <1>2, <2>1, <2>2
<1>5. \A i, j \in DOMAIN queue' : queue'[i] = queue'[j] => i = j
  <2>1. \A i, j \in DOMAIN queue : queue'[i] = queue'[j] => i = j
    <3>1. \A i, j \in DOMAIN queue : queue[i] = queue[j] => i = j
      BY DEF IInv, TypeOK
    <3>2. \A i \in DOMAIN queue : queue'[i] = queue[i]
      BY <1>2
    <3> QED
      BY <3>1, <3>2, Zenon
  <2>2. \A i \in DOMAIN queue : queue'[i] # queue'[Len(queue) + 1]
    BY <1>2, <1>3
  <2> QED
    BY <1>2, <2>1, <2>2
<1>6. TypeOK'
  BY <1>1, <1>2, <1>4, <1>5 DEF IInv, TypeOK
<1>7. Progress' /\ ReadingsWitnessed' /\ AnswersComplete'
  BY <1>1 DEF IInv, TypeOK, Progress, ReadingsWitnessed, AnswersComplete, Unrenderable
<1> QED
  BY <1>6, <1>7 DEF IInv

\* The queue without its head holds the others, each once.
LEMMA TailOfQueue ==
  ASSUME TypeOK, queue # <<>>
  PROVE  /\ Head(queue) \in Requests /\ stage[Head(queue)] = "queued"
         /\ Tail(queue) \in Seq(Requests)
         /\ \A q \in Requests : (\E i \in DOMAIN Tail(queue) : Tail(queue)[i] = q)
                                  <=> stage[q] = "queued" /\ q # Head(queue)
         /\ \A i, j \in DOMAIN Tail(queue) : Tail(queue)[i] = Tail(queue)[j] => i = j
<1>1. queue \in Seq(Requests) /\ Len(queue) \in Nat \ {0} /\ DOMAIN queue = 1 .. Len(queue)
  BY DEF TypeOK
<1>2. /\ Head(queue) = queue[1] /\ 1 \in DOMAIN queue
      /\ Tail(queue) \in Seq(Requests)
      /\ DOMAIN Tail(queue) = 1 .. Len(queue) - 1
      /\ \A i \in 1 .. Len(queue) - 1 : Tail(queue)[i] = queue[i + 1] /\ i + 1 \in DOMAIN queue
  BY <1>1
<1>3. Head(queue) \in Requests /\ stage[Head(queue)] = "queued"
  <2>1. queue[1] \in Requests
    BY <1>1, <1>2
  <2> QED
    BY <1>2, <2>1 DEF TypeOK
<1>4. \A i, j \in DOMAIN Tail(queue) : Tail(queue)[i] = Tail(queue)[j] => i = j
  <2>1. ASSUME NEW i \in 1 .. Len(queue) - 1, NEW j \in 1 .. Len(queue) - 1,
               Tail(queue)[i] = Tail(queue)[j]
        PROVE  i = j
    <3>1. i + 1 = j + 1
      BY <1>2, <2>1 DEF TypeOK
    <3> QED
      BY <3>1
  <2> QED
    BY <1>2, <2>1
<1>5. ASSUME NEW q \in Requests
      PROVE  (\E i \in DOMAIN Tail(queue) : Tail(queue)[i] = q)
                <=> stage[q] = "queued" /\ q # Head(queue)
  <2>1. ASSUME NEW i \in 1 .. Len(queue) - 1, Tail(queue)[i] = q
        PROVE  stage[q] = "queued" /\ q # Head(queue)
    <3>1. queue[i + 1] = q /\ i + 1 \in DOMAIN queue /\ i + 1 # 1
      BY <1>2, <2>1
    <3> QED
      BY <1>2, <3>1 DEF TypeOK
  <2>2. ASSUME stage[q] = "queued", q # Head(queue)
        PROVE  \E i \in 1 .. Len(queue) - 1 : Tail(queue)[i] = q
    <3>1. PICK k \in DOMAIN queue : queue[k] = q
      BY <2>2 DEF TypeOK
    <3>2. k - 1 \in 1 .. Len(queue) - 1 /\ (k - 1) + 1 = k
      BY <1>1, <1>2, <2>2, <3>1
    <3> QED
      BY <1>2, <3>1, <3>2
  <2> QED
    BY <1>2, <2>1, <2>2
<1> QED
  BY <1>2, <1>3, <1>4, <1>5

\* The service's limit is the route's: no request is turned down here.
LEMMA BeginIInv ==
  ASSUME IInv, NEW r \in Requests, Begin(r)
  PROVE  IInv'
<1>1. queue # <<>> /\ r = Head(queue) /\ queue' = Tail(queue)
  BY DEF Begin, TakeTurn
<1>2. stage[r] = "queued"
  BY <1>1, TailOfQueue DEF IInv
<1>3. Valid(Body[r])
  BY <1>2 DEF IInv, Progress
<1>a. Len(Body[r]) \in Nat
  BY ModbusAssumption
<1>4. ~(Len(Body[r]) > MAX_OPERATIONS_PER_REQUEST) /\ Len(Body[r]) >= 1
  BY <1>3, <1>a, ModbusAssumption DEF Valid
<1>5. /\ stage' = [stage EXCEPT ![r] = "running"]
      /\ UNCHANGED <<status, next, readings>>
  BY <1>4 DEF Begin
<1>6. TypeOK'
  <2>1. stage' \in [Requests -> {"sent", "queued", "running", "read", "answered"}]
    BY <1>5 DEF IInv, TypeOK
  <2>2. \A q \in Requests : stage'[q] = "queued" <=> stage[q] = "queued" /\ q # r
    BY <1>5 DEF IInv, TypeOK
  <2> QED
    BY <1>1, <1>5, <2>1, <2>2, TailOfQueue DEF IInv, TypeOK
<1>7. Progress'
  BY <1>2, <1>3, <1>4, <1>5, <1>a DEF IInv, TypeOK, Progress
<1>8. ReadingsWitnessed' /\ AnswersComplete'
  BY <1>5 DEF IInv, TypeOK, ReadingsWitnessed, AnswersComplete, Unrenderable
<1> QED
  BY <1>6, <1>7, <1>8 DEF IInv

\* A reading of the current operation keeps the batch in order.
LEMMA RecordIInv ==
  ASSUME IInv, NEW r \in Requests, stage[r] = "running", next[r] <= Len(Body[r]),
         NEW e \in Entries, e.op = next[r], Witnessed(r, e), Record(r, e)
  PROVE  IInv'
<1>1. /\ readings' = [readings EXCEPT ![r] = Append(readings[r], e)]
      /\ next' = [next EXCEPT ![r] = next[r] + 1]
      /\ UNCHANGED <<stage, queue, status>>
  BY DEF Record
<1>2. /\ next[r] \in 1 .. Len(Body[r]) /\ Len(Body[r]) \in Nat
      /\ Len(readings[r]) = next[r] - 1 /\ readings[r] \in Seq(Entries)
  BY ModbusAssumption DEF IInv, Progress, TypeOK
<1>3. /\ readings'[r] \in Seq(Entries) /\ Len(readings'[r]) = next[r]
      /\ DOMAIN readings'[r] = 1 .. next[r]
      /\ readings'[r][next[r]] = e
      /\ \A i \in 1 .. next[r] - 1 : readings'[r][i] = readings[r][i]
      /\ DOMAIN readings[r] = 1 .. next[r] - 1
  BY <1>1, <1>2 DEF IInv, TypeOK
<1>4. next'[r] = next[r] + 1
  BY <1>1 DEF IInv, TypeOK
<1>5. \A q \in Requests \ {r} : readings'[q] = readings[q] /\ next'[q] = next[q]
  BY <1>1 DEF IInv, TypeOK
<1>6. TypeOK'
  BY <1>1, <1>2, <1>3 DEF IInv, TypeOK
<1>7. Progress'
  BY <1>1, <1>2, <1>3, <1>4, <1>5 DEF IInv, Progress
<1>8. ReadingsWitnessed'
  <2>1. ASSUME NEW i \in DOMAIN readings'[r]
        PROVE  readings'[r][i].op = i /\ Witnessed(r, readings'[r][i])
    <3>1. CASE i = next[r]
      BY <1>3, <3>1
    <3>2. CASE i # next[r]
      <4>1. i \in DOMAIN readings[r] /\ readings'[r][i] = readings[r][i]
        BY <1>2, <1>3, <2>1, <3>2
      <4> QED
        BY <4>1 DEF IInv, ReadingsWitnessed
    <3> QED
      BY <3>1, <3>2
  <2>2. \A q \in Requests \ {r} : \A i \in DOMAIN readings'[q] :
          readings'[q][i].op = i /\ Witnessed(q, readings'[q][i])
    BY <1>5 DEF IInv, ReadingsWitnessed
  <2>3. \A q \in Requests : \A i \in DOMAIN readings'[q] :
          readings'[q][i].op = i /\ Witnessed(q, readings'[q][i])
    BY <2>1, <2>2
  <2> QED
    BY <2>3 DEF ReadingsWitnessed, Witnessed
<1>9. AnswersComplete'
  BY <1>1, <1>5 DEF IInv, AnswersComplete, Unrenderable
<1> QED
  BY <1>6, <1>7, <1>8, <1>9 DEF IInv

LEMMA OperationIInv ==
  ASSUME IInv, NEW r \in Requests, Operation(r)
  PROVE  IInv'
<1> DEFINE n == next[r]
           op == Body[r][n]
<1>1. stage[r] = "running" /\ n <= Len(Body[r])
  BY DEF Operation
<1>2. n \in 1 .. Len(Body[r]) /\ n \in DOMAIN Body[r] /\ op \in Op
  BY <1>1, ModbusAssumption DEF IInv, Progress, TypeOK
<1>3. Accepted(op)
  BY <1>1, <1>2 DEF IInv, Progress, Valid, ValidOp, Accepted
<1>4. CASE \E error \in {"modbus_exception", "read_failed_or_timeout"} :
             RecordFailure(r, Reading(n, None, None, error))
  <2>1. PICK error \in {"modbus_exception", "read_failed_or_timeout"} :
          Record(r, Reading(n, None, None, error))
    BY <1>4 DEF RecordFailure
  <2> DEFINE e == Reading(n, None, None, error)
  <2>2. e \in Entries /\ e.op = n
    BY <1>2 DEF Reading, Entries, Decoded
  <2>3. Witnessed(r, e)
    BY <1>2 DEF Witnessed, Reading
  <2> QED
    BY <1>1, <2>1, <2>2, <2>3, RecordIInv
<1>5. ASSUME NEW words \in Answers,
             Record(r, IF Undecodable(words, op.decode)
                       THEN Reading(n, words, None, "undecodable")
                       ELSE Reading(n, words,
                              ScaleOffset(DecodeWords(words, op.decode), op), "none"))
      PROVE  IInv'
  <2>1. words \in Seq(Nat) /\ op.decode \in Decodes
    BY <1>2, ModbusAssumption DEF Op
  <2>2. CASE Undecodable(words, op.decode)
    <3> DEFINE e == Reading(n, words, None, "undecodable")
    <3>1. e \in Entries /\ e.op = n
      BY <1>2, <2>1 DEF Reading, Entries, Decoded
    <3>2. e.error # "none"
      BY DEF Reading
    <3>3. Witnessed(r, e)
      BY <1>2, <3>1, <3>2 DEF Witnessed
    <3> QED
      BY <1>1, <1>5, <2>2, <3>1, <3>3, RecordIInv
  <2>3. CASE ~Undecodable(words, op.decode)
    <3> DEFINE v == ScaleOffset(DecodeWords(words, op.decode), op)
               e == Reading(n, words, v, "none")
    <3>1. v \in Decoded
      BY <1>2, <2>1, <2>3, DecodeMeans, ScaleOffsetType
    <3>2. e \in Entries /\ e.op = n
      BY <1>2, <2>1, <3>1 DEF Reading, Entries
    <3>3. Witnessed(r, e)
      BY <1>2, <2>1, <2>3 DEF Witnessed, Reading
    <3> QED
      BY <1>1, <1>5, <2>3, <3>2, <3>3, RecordIInv
  <2> QED
    BY <2>2, <2>3
<1> QED
  BY <1>3, <1>4, <1>5 DEF Operation

LEMMA ReturnIInv ==
  ASSUME IInv, NEW r \in Requests, Return(r)
  PROVE  IInv'
<1>1. /\ stage[r] = "running" /\ next[r] > Len(Body[r])
      /\ stage' = [stage EXCEPT ![r] = "read"]
      /\ UNCHANGED <<queue, next, readings, status>>
  BY DEF Return
<1>2. next[r] = Len(Body[r]) + 1
  BY <1>1, ModbusAssumption DEF IInv, Progress
<1>3. TypeOK'
  BY <1>1 DEF IInv, TypeOK
<1>4. Progress' /\ ReadingsWitnessed' /\ AnswersComplete'
  BY <1>1, <1>2 DEF IInv, TypeOK, Progress, ReadingsWitnessed, AnswersComplete, Unrenderable
<1> QED
  BY <1>3, <1>4 DEF IInv

LEMMA RenderIInv ==
  ASSUME IInv, NEW r \in Requests, Render(r)
  PROVE  IInv'
<1>1. PICK code \in {200, 500} :
        /\ stage[r] = "read" /\ stage' = [stage EXCEPT ![r] = "answered"]
        /\ status' = [status EXCEPT ![r] = code]
        /\ code = 500 => Unrenderable(r)
        /\ UNCHANGED <<queue, next, readings>>
  BY DEF Render, Answer
<1>2. Len(readings[r]) = Len(Body[r])
  BY <1>1, ModbusAssumption DEF IInv, Progress
<1>3. TypeOK'
  BY <1>1 DEF IInv, TypeOK
<1>4. Progress' /\ ReadingsWitnessed'
  BY <1>1 DEF IInv, TypeOK, Progress, ReadingsWitnessed
<1>5. AnswersComplete'
  BY <1>1, <1>2 DEF IInv, TypeOK, ReadingsWitnessed, AnswersComplete, Unrenderable
<1> QED
  BY <1>3, <1>4, <1>5 DEF IInv

-----------------------------------------------------------------------------
(* The theorems *)

\* The inductive invariant holds in every reachable state.
THEOREM ModbusInvariant == Spec => []IInv
<1>1. IInv /\ [Next]_vars => IInv'
  <2> SUFFICES ASSUME IInv, [Next]_vars PROVE IInv'
    OBVIOUS
  <2>1. CASE Next
    BY <2>1, RefuseIInv, SubmitIInv, BeginIInv, OperationIInv, ReturnIInv, RenderIInv
       DEF Next, Serve
  <2>2. CASE UNCHANGED vars
    BY <2>2 DEF vars, IInv, TypeOK, Progress, ReadingsWitnessed, Witnessed, AnswersComplete,
                Unrenderable
  <2> QED
    BY <2>1, <2>2
<1> QED
  BY <1>1, InitIInv, PTL DEF Spec

\* Every state has its type, and the executor's queue loses and repeats no request
\* (modbus_routes.py:145-157).
THEOREM ModbusTypes == Spec => []TypeOK
BY ModbusInvariant, PTL DEF IInv

\* A request is answered whole, or was refused before the device was asked anything
\* (modbus_routes.py:69-75, 113-117; modbus_service.py:83-188).
THEOREM BatchesWhole == Spec => []AnswersComplete
BY ModbusInvariant, PTL DEF IInv

\* What the answer calls decoded is the number the declared type has for the words, for
\* words of 16 bits as for any other even modulus (modbus_service.py:30-53).
THEOREM DecodingCorrect == Spec => []DecodedAsDeclared
<1>1. IInv => DecodedAsDeclared
  <2> SUFFICES ASSUME IInv, NEW r \in Requests, NEW i \in DOMAIN readings[r],
                      readings[r][i].error = "none",
                      Body[r][readings[r][i].op].scale = 1, Body[r][readings[r][i].op].offset = 0
               PROVE  LET e == readings[r][i]
                          op == Body[r][e.op]
                          word(k) == Word(e.words[k])
                      IN  CASE op.decode = "raw"    -> e.decoded = None
                            [] op.decode = "uint16" -> e.decoded = word(1)
                            [] op.decode = "int16"  -> SignedValue(e.decoded, word(1), M)
                            [] op.decode = "uint32" ->
                                 e.decoded \div M = word(1) /\ e.decoded % M = word(2)
                            [] op.decode = "int32"  ->
                                 SignedValue(e.decoded, M * word(1) + word(2), M * M)
                            [] OTHER -> e.decoded = FloatOf[M * word(1) + word(2)]
    BY DEF DecodedAsDeclared
  <2> DEFINE e == readings[r][i]
             op == Body[r][e.op]
             v == DecodeWords(e.words, op.decode)
  <2>1. /\ e.op \in DOMAIN Body[r] /\ e.words \in Seq(Nat)
        /\ ~Undecodable(e.words, op.decode) /\ e.decoded = ScaleOffset(v, op)
    BY DEF IInv, ReadingsWitnessed, Witnessed
  <2>a. Body[r] \in Seq(Op)
    BY ModbusAssumption
  <2>2. op \in Op /\ op.decode \in Decodes
    <3> HIDE DEF e
    <3>1. op \in Op
      BY <2>1, <2>a
    <3> QED
      BY <3>1 DEF Op
  <2>3. v \in Decoded
    BY <2>1, <2>2, DecodeMeans
  <2>4. e.decoded = v
    BY <2>1, <2>2, <2>3, ScaleOffsetNothing
  <2> QED
    BY <2>1, <2>2, <2>4, DecodeMeans DEF Decodes
<1> QED
  BY <1>1, ModbusInvariant, PTL

-----------------------------------------------------------------------------
(* Decoding loses nothing *)

Integral == {"uint16", "int16", "uint32", "int32"}

\* Two's complement tells any two numbers apart.
LEMMA SignedInjective ==
  ASSUME NEW m \in Nat, m % 2 = 0, NEW a \in 0 .. m - 1, NEW b \in 0 .. m - 1,
         Signed(a, m) = Signed(b, m)
  PROVE  a = b
<1>1. m = 2 * (m \div 2) /\ m \div 2 \in Nat
  OBVIOUS
<1> QED
  BY <1>1 DEF Signed

\* Registers that differ are reported as different numbers: of the words a type needs none
\* is dropped or merged with the other (modbus_service.py:36-51).
THEOREM DecodingInjective ==
  ASSUME NEW a \in Seq(Nat), NEW b \in Seq(Nat), NEW decode \in Integral,
         ~Undecodable(a, decode), ~Undecodable(b, decode),
         DecodeWords(a, decode) = DecodeWords(b, decode)
  PROVE  Word(a[1]) = Word(b[1]) /\ (decode \in Wide => Word(a[2]) = Word(b[2]))
<1> USE ModbusAssumption
<1>1. CASE decode \in {"uint16", "int16"}
  <2>1. a[1] \in Nat /\ b[1] \in Nat
    BY <1>1 DEF Undecodable
  <2>2. Word(a[1]) \in 0 .. M - 1 /\ Word(b[1]) \in 0 .. M - 1
    BY <2>1, WordRange
  <2>3. CASE decode = "uint16"
    BY <2>3 DEF DecodeWords, Wide
  <2>4. CASE decode = "int16"
    <3>1. Signed(Word(a[1]), M) = Signed(Word(b[1]), M)
      BY <2>4 DEF DecodeWords
    <3> QED
      BY <2>2, <2>4, <3>1, SignedInjective DEF Wide
  <2> QED
    BY <1>1, <2>3, <2>4
<1>2. CASE decode \in {"uint32", "int32"}
  <2>1. a[1] \in Nat /\ a[2] \in Nat /\ b[1] \in Nat /\ b[2] \in Nat
    BY <1>2 DEF Undecodable, Wide
  <2>2. /\ Word(a[1]) \in 0 .. M - 1 /\ Word(a[2]) \in 0 .. M - 1
        /\ Word(b[1]) \in 0 .. M - 1 /\ Word(b[2]) \in 0 .. M - 1
    BY <2>1, WordRange
  <2>3. /\ Pair(a) \in 0 .. M * M - 1 /\ Pair(a) \div M = Word(a[1]) /\ Pair(a) % M = Word(a[2])
        /\ Pair(b) \in 0 .. M * M - 1 /\ Pair(b) \div M = Word(b[1]) /\ Pair(b) % M = Word(b[2])
    BY <2>2, PairParts DEF Pair
  <2>4. Pair(a) = Pair(b)
    <3>1. CASE decode = "uint32"
      BY <3>1 DEF DecodeWords
    <3>2. CASE decode = "int32"
      <4>1. Signed(Pair(a), M * M) = Signed(Pair(b), M * M)
        BY <3>2 DEF DecodeWords
      <4> QED
        BY <2>3, <4>1, SquareEven, SignedInjective
    <3> QED
      BY <1>2, <3>1, <3>2
  <2> QED
    BY <2>3, <2>4
<1> QED
  BY <1>1, <1>2 DEF Integral

\* Every number a declared type has is what some registers decode to, and those are its
\* big-endian words (modbus_service.py:36-51, docs/modbus-tcp.md:31).
THEOREM EveryNumberRepresented ==
  /\ \A v \in 0 .. M - 1 : DecodeWords(<<v>>, "uint16") = v
  /\ \A v \in Int : -M <= 2 * v /\ 2 * v < M => DecodeWords(<<v % M>>, "int16") = v
  /\ \A v \in 0 .. M * M - 1 : DecodeWords(<<v \div M, v % M>>, "uint32") = v
  /\ \A v \in Int : -(M * M) <= 2 * v /\ 2 * v < M * M =>
       LET n == v % (M * M) IN DecodeWords(<<n \div M, n % M>>, "int32") = v
<1>0. M \in Nat \ {0} /\ M % 2 = 0
  BY ModbusAssumption
<1>1. ASSUME NEW v \in 0 .. M - 1
      PROVE  Word(v) = v /\ DecodeWords(<<v>>, "uint16") = v
  BY <1>0 DEF Word, DecodeWords
<1>2. ASSUME NEW m \in Nat \ {0}, m % 2 = 0, NEW v \in Int, -m <= 2 * v, 2 * v < m
      PROVE  v % m \in 0 .. m - 1 /\ Signed(v % m, m) = v
  <2>1. m = 2 * (m \div 2) /\ m \div 2 \in Nat
    BY <1>2
  <2>2. CASE v >= 0
    <3>1. v % m = v
      BY <1>2, <2>2
    <3> QED
      BY <1>2, <2>1, <2>2, <3>1 DEF Signed
  <2>3. CASE v < 0
    <3>1. v % m = v + m
      BY <1>2, <2>3
    <3> QED
      BY <1>2, <2>1, <2>3, <3>1 DEF Signed
  <2> QED
    BY <2>2, <2>3
<1>3. ASSUME NEW v \in Int, -M <= 2 * v, 2 * v < M
      PROVE  DecodeWords(<<v % M>>, "int16") = v
  <2>1. v % M \in 0 .. M - 1 /\ Signed(v % M, M) = v
    BY <1>0, <1>2, <1>3
  <2>2. DecodeWords(<<v % M>>, "int16") = Signed(Word(v % M), M)
    BY DEF DecodeWords
  <2> QED
    BY <1>1, <2>1, <2>2
<1>4. ASSUME NEW n \in 0 .. M * M - 1
      PROVE  Pair(<<n \div M, n % M>>) = n
  <2>1. n \div M \in Nat /\ n % M \in 0 .. M - 1 /\ n = (n \div M) * M + (n % M)
    BY <1>0
  <2>2. n \div M <= M - 1
    <3> SUFFICES ASSUME n \div M >= M PROVE FALSE
      BY <1>0, <2>1
    <3>1. M * M <= (n \div M) * M
      BY <1>0, <2>1, TimesMonotone
    <3> QED
      BY <1>0, <2>1, <3>1
  <2>3. Word(n \div M) = n \div M /\ Word(n % M) = n % M
    <3>1. n \div M \in 0 .. M - 1
      BY <1>0, <2>1, <2>2
    <3>2. \A v \in 0 .. M - 1 : Word(v) = v
      BY <1>1
    <3> QED
      BY <2>1, <3>1, <3>2, Zenon
  <2> QED
    BY <2>1, <2>3 DEF Pair
<1>5. \A v \in 0 .. M * M - 1 : DecodeWords(<<v \div M, v % M>>, "uint32") = v
  BY <1>4 DEF DecodeWords
<1>6. ASSUME NEW v \in Int, -(M * M) <= 2 * v, 2 * v < M * M, NEW n, n = v % (M * M)
      PROVE  DecodeWords(<<n \div M, n % M>>, "int32") = v
  <2>1. M * M \in Nat \ {0} /\ (M * M) % 2 = 0
    BY <1>0, SquareEven
  <2>2. n \in 0 .. M * M - 1 /\ Signed(n, M * M) = v
    BY <1>2, <1>6, <2>1
  <2>3. DecodeWords(<<n \div M, n % M>>, "int32") = Signed(Pair(<<n \div M, n % M>>), M * M)
    BY DEF DecodeWords
  <2> QED
    BY <1>4, <2>2, <2>3
<1> QED
  BY <1>1, <1>3, <1>5, <1>6

-----------------------------------------------------------------------------
(* The service neither stops nor goes on for ever *)

\* Steps a request has still to make.
Remaining(r) ==
  CASE stage[r] = "sent"     -> Len(Body[r]) + 4
    [] stage[r] = "queued"   -> Len(Body[r]) + 3
    [] stage[r] = "running"  -> Len(Body[r]) + 3 - next[r]
    [] stage[r] = "read"     -> 1
    [] stage[r] = "answered" -> 0

\* A step brings one request nearer its answer, and takes none back.
OneGoesOn ==
  \E r \in Requests :
    /\ Remaining(r)' < Remaining(r)
    /\ \A q \in Requests \ {r} : Remaining(q)' = Remaining(q)

\* While any request has no answer some request can go on: a refused or new one, one that
\* has its thread, or the oldest that waits, for which a thread is free.
SomeoneCanGoOn ==
  (\E r \in Requests : stage[r] # "answered") =>
    \E r \in Requests :
      \/ stage[r] = "sent"
      \/ stage[r] = "running" /\ (next[r] <= Len(Body[r]) => Accepted(Body[r][next[r]]))
      \/ stage[r] = "read"
      \/ stage[r] = "queued" /\ queue # <<>> /\ r = Head(queue) /\ Cardinality(Running) < Threads

LEMMA RemainingNat ==
  ASSUME IInv, NEW r \in Requests
  PROVE  Remaining(r) \in Nat
<1>1. Len(Body[r]) \in Nat
  BY ModbusAssumption
<1> QED
  BY <1>1 DEF IInv, TypeOK, Progress, Remaining

\* For any threads and devices, each step takes some request on, so that a batch that is
\* served is served in boundedly many steps (modbus_service.py:83-188).
THEOREM BatchesShorten == Spec => [][OneGoesOn]_vars
<1>1. ASSUME IInv, Next PROVE OneGoesOn
  <2>1. PICK r \in Requests : Refuse(r) \/ Submit(r) \/ Serve(r)
    BY <1>1 DEF Next
  <2>2. Len(Body[r]) \in Nat
    BY ModbusAssumption
  <2>3. /\ \A q \in Requests \ {r} : stage'[q] = stage[q] /\ next'[q] = next[q]
        /\ Remaining(r)' < Remaining(r)
    <3> USE <1>1, <2>2 DEF IInv, TypeOK
    <3>1. CASE Refuse(r)
      BY <3>1 DEF Refuse, Answer, Remaining
    <3>2. CASE Submit(r)
      BY <3>2 DEF Submit, Remaining
    <3>3. CASE Begin(r)
      <4>1. stage[r] = "queued" /\ next[r] = 1
        BY <3>3, TailOfQueue DEF Begin, TakeTurn, Progress
      <4> QED
        BY <3>3, <4>1 DEF Begin, Answer, Remaining
    <3>4. CASE Operation(r)
      <4>1. stage[r] = "running" /\ next[r] \in Nat /\ next[r] <= Len(Body[r])
        BY <3>4 DEF Operation
      <4>2. \/ stage' = [stage EXCEPT ![r] = "answered"] /\ UNCHANGED next
            \/ next' = [next EXCEPT ![r] = next[r] + 1] /\ UNCHANGED stage
        BY <3>4 DEF Operation, RecordFailure, Record, Answer
      <4> QED
        BY <4>1, <4>2 DEF Remaining
    <3>5. CASE Return(r)
      <4>1. /\ stage[r] = "running" /\ next[r] = Len(Body[r]) + 1
            /\ stage' = [stage EXCEPT ![r] = "read"] /\ UNCHANGED next
        BY <3>5 DEF Return, Progress
      <4> QED
        BY <4>1 DEF Remaining
    <3>6. CASE Render(r)
      BY <3>6 DEF Render, Answer, Remaining
    <3> QED
      BY <2>1, <3>1, <3>2, <3>3, <3>4, <3>5, <3>6 DEF Serve
  <2> QED
    BY <2>3 DEF OneGoesOn, Remaining
<1>2. IInv /\ [Next]_vars => [OneGoesOn]_vars
  BY <1>1
<1> QED
  BY <1>2, ModbusInvariant, PTL DEF Spec

\* No batch waits for a thread while all threads wait: the pool cannot deadlock, however
\* few threads it has (modbus_routes.py:148).
THEOREM NeverAllStuck == Spec => []SomeoneCanGoOn
<1>1. IInv => SomeoneCanGoOn
  <2> SUFFICES ASSUME IInv, NEW r \in Requests, stage[r] # "answered"
               PROVE  \E q \in Requests :
                        \/ stage[q] = "sent"
                        \/ stage[q] = "running"
                             /\ (next[q] <= Len(Body[q]) => Accepted(Body[q][next[q]]))
                        \/ stage[q] = "read"
                        \/ stage[q] = "queued" /\ queue # <<>> /\ q = Head(queue)
                             /\ Cardinality(Running) < Threads
    BY DEF SomeoneCanGoOn
  <2>1. CASE \E q \in Requests : stage[q] = "running"
    <3>1. PICK q \in Requests : stage[q] = "running"
      BY <2>1
    <3>2. Valid(Body[q]) /\ next[q] \in 1 .. Len(Body[q]) + 1 /\ Len(Body[q]) \in Nat
      BY <3>1, ModbusAssumption DEF IInv, Progress
    <3>3. next[q] <= Len(Body[q]) => Accepted(Body[q][next[q]])
      <4>1. next[q] <= Len(Body[q]) => next[q] \in DOMAIN Body[q]
        BY <3>2, ModbusAssumption
      <4> QED
        BY <3>2, <4>1 DEF Valid, ValidOp, Accepted
    <3> QED
      BY <3>1, <3>3
  <2>2. CASE ~\E q \in Requests : stage[q] = "running"
    <3>1. Running = {}
      BY <2>2 DEF Running
    <3>2. Cardinality(Running) < Threads
      BY <3>1, FS_EmptySet, ModbusAssumption
    <3>3. CASE stage[r] = "queued"
      <4>1. queue # <<>>
        BY <3>3 DEF IInv, TypeOK
      <4> QED
        BY <3>2, <4>1, TailOfQueue DEF IInv
    <3> QED
      BY <2>2, <3>3 DEF IInv, TypeOK
  <2> QED
    BY <2>1, <2>2
<1> QED
  BY <1>1, ModbusInvariant, PTL

=============================================================================
