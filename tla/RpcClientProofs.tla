--------------------------- MODULE RpcClientProofs ---------------------------
(***************************************************************************)
(* What RpcClient promises, proved for any number of retries, all delays   *)
(* and all latencies.                                                      *)
(*                                                                         *)
(* A call in progress has met retryable answers only; one that is over     *)
(* came to what its last answer says.  For the pace of the requests it     *)
(* matters that no time passes from the moment a call is dated to its      *)
(* first request, so the age of the one is the age of the other.           *)
(***************************************************************************)
EXTENDS RpcClient, SequenceTheorems, TLAPS

CallInv ==
    /\ TypeOK
    /\ pc # "idle" =>
          /\ method \in Methods /\ Len(answers) <= RPC_MAX_RETRIES
          /\ \A i \in 1 .. Len(answers) : Retryable(answers[i])
    /\ Over =>
          /\ method \in Methods
          /\ \A i \in 1 .. Len(answers) - 1 : Retryable(answers[i])
          /\ Retryable(LastAnswer) => Len(answers) = RPC_MAX_RETRIES + 1
          /\ outcome = Result(method, LastAnswer)

-----------------------------------------------------------------------------
(* Time.                                                                   *)

LEMMA AgedIsAge ==
    ASSUME NEW longest \in Nat, NEW age \in Ages(longest), NEW ticks \in Nat
    PROVE  /\ Aged(age, ticks, longest) \in Ages(longest)
           /\ age # None <=> Aged(age, ticks, longest) # None
BY RpcAssumption DEF Aged, Ages, Smaller

LEMMA AgesWellTyped ==
    /\ None \notin Nat /\ GET_LOGS_REQUEST_DELAY \in Nat /\ RPC_RETRY_MAX_DELAY \in Nat
    /\ \A longest \in Nat : 0 \in Ages(longest) /\ \A age \in Ages(longest) : age # None => age \in 0 .. longest
    /\ \A busy \in Latencies : busy \in Nat
BY RpcAssumption DEF Ages

LEMMA ThrottleIsNat ==
    ASSUME NEW age \in Ages(GET_LOGS_REQUEST_DELAY)
    PROVE  Throttle(age) \in Nat
BY RpcAssumption DEF Throttle, Ages

LEMMA PassKeepsTypes ==
    ASSUME TypeOK, NEW ticks \in Nat, PassRequests(ticks)
    PROVE  /\ since_first' \in Ages(GET_LOGS_REQUEST_DELAY)
           /\ since_request' \in Ages(RPC_RETRY_MAX_DELAY)
BY AgedIsAge, AgesWellTyped DEF PassRequests, TypeOK

(* How long a retry waits at least after the answer before it.             *)
Asked(attempt, ans) ==
    Smaller(IF ans.retry_after = None THEN RPC_RETRY_BASE_DELAY * 2^attempt ELSE ans.retry_after,
            RPC_RETRY_MAX_DELAY)

LEMMA DelaysAreNat ==
    ASSUME NEW attempt \in 0 .. RPC_MAX_RETRIES, NEW ans \in Answer,
           NEW delay \in Delays(attempt, ans)
    PROVE  /\ delay \in Nat /\ Asked(attempt, ans) \in 0 .. RPC_RETRY_MAX_DELAY
           /\ delay >= Asked(attempt, ans)
<1>1. RPC_RETRY_MAX_DELAY \in Nat /\ RPC_RETRY_BASE_DELAY \in Nat
  BY RpcAssumption
<1>2. CASE ans.retry_after # None
  <2>1. ans.retry_after \in Nat
    BY <1>2, RpcAssumption DEF Answer
  <2>2. QED BY <1>1, <1>2, <2>1 DEF Delays, Smaller, Asked
<1>3. CASE ans.retry_after = None
  <2> DEFINE power == 2^attempt
             cap == Smaller(RPC_RETRY_BASE_DELAY * power, RPC_RETRY_MAX_DELAY)
  <2>1. power \in Nat
    BY PowersOfTwo
  <2>2. delay \in cap .. cap + cap \div 4 /\ Asked(attempt, ans) = cap
    BY <1>3 DEF Delays, Backoff, Asked
  <2> HIDE DEF power
  <2>3. RPC_RETRY_BASE_DELAY * power \in Nat
    BY <1>1, <2>1
  <2>4. cap \in 0 .. RPC_RETRY_MAX_DELAY
    BY <1>1, <2>3 DEF Smaller
  <2> HIDE DEF cap
  <2>5. QED BY <1>1, <2>2, <2>4
<1>4. QED BY <1>2, <1>3

-----------------------------------------------------------------------------
(* Calls.                                                                  *)

LEMMA CallInvInit == Init => CallInv
BY EmptySeq, RpcAssumption DEF Init, CallInv, TypeOK, Over, Ages

LEMMA ResultIsOutcome ==
    ASSUME NEW meth, NEW ans
    PROVE  Result(meth, ans) \in Outcomes
BY DEF Result, Outcomes

LEMMA GetLogsAges ==
    ASSUME TypeOK, GetLogs
    PROVE  /\ since_call' = 0
           /\ since_first' \in Ages(GET_LOGS_REQUEST_DELAY)
           /\ since_request' \in Ages(RPC_RETRY_MAX_DELAY)
           /\ since_call = since_first /\ since_first # None =>
                 since_first' = GET_LOGS_REQUEST_DELAY
<1>1. PICK busy \in Latencies :
         LET pause == Throttle(Aged(since_call, busy, GET_LOGS_REQUEST_DELAY))
         IN  /\ PassRequests(busy + pause)
             /\ since_call' = Smaller(0 * pause, GET_LOGS_REQUEST_DELAY)
  BY DEF GetLogs, GetLogsTimedAt
<1> DEFINE aged == Aged(since_call, busy, GET_LOGS_REQUEST_DELAY)
           pause == Throttle(aged)
<1>2. busy \in Nat /\ GET_LOGS_REQUEST_DELAY \in Nat /\ None \notin Nat
  BY AgesWellTyped
<1>3. since_call \in Ages(GET_LOGS_REQUEST_DELAY) /\ aged \in Ages(GET_LOGS_REQUEST_DELAY)
  BY <1>2, AgedIsAge DEF TypeOK
<1>4. pause \in Nat
  BY <1>3, ThrottleIsNat
<1>5. PassRequests(busy + pause) /\ since_call' = Smaller(0 * pause, GET_LOGS_REQUEST_DELAY)
  BY <1>1
<1>6. since_call' = 0
  <2> HIDE DEF pause
  <2>1. 0 * pause = 0
    BY <1>4
  <2>2. QED BY <1>2, <1>5, <2>1 DEF Smaller
<1>7. /\ since_first' \in Ages(GET_LOGS_REQUEST_DELAY)
      /\ since_request' \in Ages(RPC_RETRY_MAX_DELAY)
  <2> HIDE DEF pause
  <2>1. busy + pause \in Nat
    BY <1>2, <1>4
  <2>2. QED BY <1>5, <2>1, PassKeepsTypes
<1>8. ASSUME since_call = since_first, since_first # None
      PROVE  since_first' = GET_LOGS_REQUEST_DELAY
  <2>1. since_first \in 0 .. GET_LOGS_REQUEST_DELAY
    BY <1>2, <1>3, <1>8, AgesWellTyped
  <2>2. aged = Smaller(since_first + busy, GET_LOGS_REQUEST_DELAY)
    BY <1>8 DEF Aged
  <2>3. pause = IF aged < GET_LOGS_REQUEST_DELAY THEN GET_LOGS_REQUEST_DELAY - aged ELSE 0
    <3>1. aged # None
      BY <1>2, <1>3, <1>8, AgedIsAge
    <3> HIDE DEF aged
    <3>2. QED BY <3>1 DEF Throttle
  <2>4. since_first' = Smaller(since_first + (busy + pause), GET_LOGS_REQUEST_DELAY)
    BY <1>5, <1>8 DEF PassRequests, Aged
  <2> HIDE DEF aged, pause
  <2>5. QED BY <1>2, <1>4, <2>1, <2>2, <2>3, <2>4 DEF Smaller
<1>9. QED BY <1>6, <1>7, <1>8

(* What taking an answer does.                                             *)
LEMMA ReceiveDoes ==
    ASSUME CallInv, NEW ans \in Answer, Receive(ans)
    PROVE  /\ pc = "wait" /\ method' = method /\ answers' = Append(answers, ans)
           /\ since_call' \in Ages(GET_LOGS_REQUEST_DELAY)
           /\ since_first' \in Ages(GET_LOGS_REQUEST_DELAY)
           /\ since_request' \in Ages(RPC_RETRY_MAX_DELAY)
           /\ since_call = since_first => since_call' = since_first'
           /\ \/ /\ Retryable(ans) /\ Len(answers) < RPC_MAX_RETRIES
                 /\ pc' = "send" /\ outcome' = "none"
                 /\ since_request = 0 => since_request' >= Asked(Len(answers), ans)
              \/ /\ ~(Retryable(ans) /\ Len(answers) < RPC_MAX_RETRIES)
                 /\ pc' = "idle" /\ outcome' = Result(method, ans)
<1>1. PICK latency \in Latencies :
         IF Retryable(ans) /\ Len(answers) < RPC_MAX_RETRIES
         THEN /\ \E delay \in Delays(Len(answers), ans) : Pass(latency + delay)
              /\ pc' = "send" /\ outcome' = "none"
         ELSE /\ Pass(latency)
              /\ pc' = "idle" /\ outcome' = Result(method, ans)
  BY DEF Receive, ReceiveAtMost
<1>2. pc = "wait" /\ method' = method /\ answers' = Append(answers, ans)
  BY DEF Receive, ReceiveAtMost
<1>3. latency \in Nat /\ Len(answers) \in Nat /\ TypeOK
  BY AgesWellTyped DEF CallInv, TypeOK
<1>4. ASSUME NEW ticks \in Nat, Pass(ticks)
      PROVE  /\ since_call' \in Ages(GET_LOGS_REQUEST_DELAY)
             /\ since_first' \in Ages(GET_LOGS_REQUEST_DELAY)
             /\ since_request' \in Ages(RPC_RETRY_MAX_DELAY)
             /\ since_call = since_first => since_call' = since_first'
  <2>1. since_call \in Ages(GET_LOGS_REQUEST_DELAY)
    BY <1>3 DEF TypeOK
  <2>2. since_call' \in Ages(GET_LOGS_REQUEST_DELAY)
    BY <1>4, <2>1, AgedIsAge, AgesWellTyped DEF Pass
  <2>3. since_call = since_first => since_call' = since_first'
    BY <1>4 DEF Pass, PassRequests
  <2>4. QED BY <1>3, <1>4, <2>2, <2>3, PassKeepsTypes DEF Pass
<1>5. CASE Retryable(ans) /\ Len(answers) < RPC_MAX_RETRIES
  <2>1. PICK delay \in Delays(Len(answers), ans) : Pass(latency + delay)
    BY <1>1, <1>5
  <2>2. /\ delay \in Nat /\ delay >= Asked(Len(answers), ans)
        /\ Asked(Len(answers), ans) \in 0 .. RPC_RETRY_MAX_DELAY
    <3>1. Len(answers) \in 0 .. RPC_MAX_RETRIES
      BY <1>3, <1>5, RpcAssumption
    <3>2. QED BY <2>1, <3>1, DelaysAreNat
  <2>3. latency + delay \in Nat
    BY <1>3, <2>2
  <2>4. ASSUME since_request = 0
        PROVE  since_request' >= Asked(Len(answers), ans)
    <3>1. since_request' = Smaller(latency + delay, RPC_RETRY_MAX_DELAY)
      BY <1>3, <2>1, <2>2, <2>4, AgesWellTyped DEF Pass, PassRequests, Aged
    <3>2. QED BY <1>3, <2>2, <3>1, AgesWellTyped DEF Smaller
  <2>5. QED BY <1>1, <1>2, <1>4, <1>5, <2>1, <2>3, <2>4
<1>6. CASE ~(Retryable(ans) /\ Len(answers) < RPC_MAX_RETRIES)
  BY <1>1, <1>2, <1>3, <1>4, <1>6
<1>7. QED BY <1>5, <1>6

LEMMA BeginKeeps ==
    ASSUME TypeOK, NEW meth \in Methods, Begin(meth),
           since_call' \in Ages(GET_LOGS_REQUEST_DELAY),
           since_first' \in Ages(GET_LOGS_REQUEST_DELAY),
           since_request' \in Ages(RPC_RETRY_MAX_DELAY)
    PROVE  CallInv'
<1>1. /\ pc' = "send" /\ method' \in Methods /\ answers' = << >> /\ outcome' = "none"
      /\ Len(answers') = 0 /\ answers' \in Seq(Answer)
  BY EmptySeq DEF Begin
<1>2. RPC_MAX_RETRIES \in Nat
  BY RpcAssumption
<1>3. TypeOK'
  BY <1>1, <1>2 DEF TypeOK
<1>4. QED BY <1>1, <1>2, <1>3 DEF CallInv, Over

LEMMA ReceiveKeeps ==
    ASSUME CallInv, NEW ans \in Answer, Receive(ans)
    PROVE  CallInv'
<1>1. /\ pc = "wait" /\ method' = method /\ answers' = Append(answers, ans)
      /\ since_call' \in Ages(GET_LOGS_REQUEST_DELAY)
      /\ since_first' \in Ages(GET_LOGS_REQUEST_DELAY)
      /\ since_request' \in Ages(RPC_RETRY_MAX_DELAY)
      /\ \/ /\ Retryable(ans) /\ Len(answers) < RPC_MAX_RETRIES
            /\ pc' = "send" /\ outcome' = "none"
         \/ /\ ~(Retryable(ans) /\ Len(answers) < RPC_MAX_RETRIES)
            /\ pc' = "idle" /\ outcome' = Result(method, ans)
  BY ReceiveDoes
<1>2. /\ method \in Methods /\ answers \in Seq(Answer) /\ Len(answers) <= RPC_MAX_RETRIES
      /\ \A i \in 1 .. Len(answers) : Retryable(answers[i])
      /\ Len(answers) \in Nat /\ RPC_MAX_RETRIES \in Nat
  BY <1>1, RpcAssumption DEF CallInv, TypeOK
<1> DEFINE n == Len(answers)
<1>3. /\ answers' \in Seq(Answer) /\ Len(answers') = n + 1 /\ answers' # << >>
      /\ answers'[n + 1] = ans /\ \A i \in 1 .. n : answers'[i] = answers[i]
  BY <1>1, <1>2, AppendProperties
<1>4. \A i \in 1 .. n : Retryable(answers'[i])
  BY <1>2, <1>3
<1>5. TypeOK'
  <2>1. outcome' \in Outcomes \cup {"none"}
    BY <1>1, ResultIsOutcome
  <2>2. QED BY <1>1, <1>2, <1>3, <2>1 DEF TypeOK
<1>6. LastAnswer' = ans
  BY <1>3 DEF LastAnswer
<1>7. CASE pc' = "send"
  <2>1. Retryable(ans) /\ n + 1 <= RPC_MAX_RETRIES
    BY <1>1, <1>2, <1>7
  <2>2. \A i \in 1 .. n + 1 : Retryable(answers'[i])
    BY <1>2, <1>3, <1>4, <2>1
  <2>3. QED BY <1>1, <1>2, <1>3, <1>5, <1>7, <2>1, <2>2 DEF CallInv, Over
<1>8. CASE pc' = "idle"
  <2>1. /\ ~(Retryable(ans) /\ n < RPC_MAX_RETRIES) /\ outcome' = Result(method, ans)
    BY <1>1, <1>8
  <2>2. Retryable(ans) => Len(answers') = RPC_MAX_RETRIES + 1
    BY <1>2, <1>3, <2>1
  <2>3. \A i \in 1 .. Len(answers') - 1 : Retryable(answers'[i])
    BY <1>2, <1>3, <1>4
  <2>4. /\ outcome' = Result(method', LastAnswer')
        /\ Retryable(LastAnswer') => Len(answers') = RPC_MAX_RETRIES + 1
    BY <1>1, <1>6, <2>1, <2>2
  <2>5. QED BY <1>1, <1>2, <1>5, <1>8, <2>3, <2>4 DEF CallInv, Over
<1>9. QED BY <1>1, <1>7, <1>8

LEMMA CallInvStep == ASSUME CallInv, [Next]_vars PROVE CallInv'
<1>1. CASE GetLogs
  <2>1. /\ since_call' \in Ages(GET_LOGS_REQUEST_DELAY)
        /\ since_first' \in Ages(GET_LOGS_REQUEST_DELAY)
        /\ since_request' \in Ages(RPC_RETRY_MAX_DELAY)
    BY <1>1, GetLogsAges, AgesWellTyped DEF CallInv
  <2>2. Begin("eth_getLogs") /\ "eth_getLogs" \in Methods
    BY <1>1 DEF GetLogs, GetLogsTimedAt, Methods
  <2>3. QED BY <2>1, <2>2, BeginKeeps DEF CallInv
<1>2. CASE BlockNumber
  <2>1. /\ since_call' \in Ages(GET_LOGS_REQUEST_DELAY)
        /\ since_first' \in Ages(GET_LOGS_REQUEST_DELAY)
        /\ since_request' \in Ages(RPC_RETRY_MAX_DELAY)
    <3>1. PICK busy \in Latencies : Pass(busy)
      BY <1>2 DEF BlockNumber
    <3>2. busy \in Nat /\ since_call \in Ages(GET_LOGS_REQUEST_DELAY) /\ TypeOK
      BY AgesWellTyped DEF CallInv, TypeOK
    <3>3. since_call' \in Ages(GET_LOGS_REQUEST_DELAY)
      BY <3>1, <3>2, AgedIsAge, AgesWellTyped DEF Pass
    <3>4. QED BY <3>1, <3>2, <3>3, PassKeepsTypes DEF Pass
  <2>2. Begin("eth_blockNumber") /\ "eth_blockNumber" \in Methods
    BY <1>2 DEF BlockNumber, Methods
  <2>3. QED BY <2>1, <2>2, BeginKeeps DEF CallInv
<1>3. CASE Send
  BY <1>3, AgesWellTyped DEF Send, CallInv, TypeOK, Over
<1>4. CASE Provider
  BY <1>4, ReceiveKeeps DEF Provider
<1>5. CASE UNCHANGED vars
  BY <1>5 DEF vars, CallInv, TypeOK, Over, LastAnswer
<1>6. QED BY <1>1, <1>2, <1>3, <1>4, <1>5 DEF Next

LEMMA CallInvAlways == Spec => []CallInv
BY CallInvInit, CallInvStep, PTL DEF Spec

(* Every variable has its type; no call makes more requests than allowed.  *)
THEOREM TypeCorrect == Spec => []TypeOK
<1>1. CallInv => TypeOK
  BY DEF CallInv
<1>2. QED BY <1>1, CallInvAlways, PTL

(* A call gives up on a rate limit or a lost connection after all attempts *)
(* and not before, stops at any other answer, and reports what the last    *)
(* answer was.                                                             *)
THEOREM GivesUpLate == Spec => []GivesUpOnlyWhenExhausted
<1>1. CallInv => GivesUpOnlyWhenExhausted
  <2> SUFFICES ASSUME CallInv, Over PROVE GivesUpOnlyWhenExhausted
    BY DEF GivesUpOnlyWhenExhausted
  <2> DEFINE last == LastAnswer
  <2>1. /\ \A i \in 1 .. Len(answers) - 1 : Retryable(answers[i])
        /\ Retryable(last) => Len(answers) = RPC_MAX_RETRIES + 1
        /\ outcome = Result(method, last)
    BY DEF CallInv
  <2>2. last \in Answer
    <3>1. answers \in Seq(Answer) /\ answers # << >>
      BY DEF CallInv, TypeOK, Over
    <3>2. Len(answers) \in 1 .. Len(answers)
      BY <3>1, EmptySeq
    <3>3. QED BY <3>1, <3>2, ElementOfSeq DEF LastAnswer
  <2> HIDE DEF last
  <2>3. /\ last.status \in {"unreachable", "200", "429", "500"}
        /\ last.status = "unreachable" => last.body = "read"
        /\ last.status = "unreachable" \/ last.body # "read" => last.error = {"none"}
    BY <2>2 DEF Answer
  <2>4. (outcome = "RateLimitError") <=> Retryable(last) /\ last.status # "unreachable"
    BY <2>1, <2>3 DEF Result, Retryable, Unusable, HasError, MentionsRateLimit, BlockRangeLimit
  <2>5. (outcome = "result") <=>
           last.status = "200" /\ last.body = "read" /\ ~HasError(last)
    BY <2>1, <2>3 DEF Result, Retryable, Unusable, HasError, MentionsRateLimit, BlockRangeLimit
  <2>6. outcome = "BlockRangeLimitError" => method = "eth_getLogs"
    BY <2>1 DEF Result, BlockRangeLimit
  <2>7. QED BY <2>1, <2>4, <2>5, <2>6 DEF GivesUpOnlyWhenExhausted, last
<1>2. QED BY <1>1, CallInvAlways, PTL

-----------------------------------------------------------------------------
(* The pace of requests.                                                   *)

(* From the first request of a call for logs on, the age of the one is the *)
(* age of the other; and no time passes between a request and the moment   *)
(* its answer is awaited.                                                  *)
Opening == method = "eth_getLogs" /\ pc = "send" /\ answers = << >>

AgeInv ==
    /\ IF Opening THEN since_call = 0 ELSE since_call = since_first
    /\ pc = "wait" => since_request = 0

LEMMA AgeInvInit == Init => AgeInv
BY DEF Init, AgeInv, Opening

LEMMA AgeInvStep == ASSUME CallInv, AgeInv, [Next]_vars PROVE AgeInv'
<1>1. CASE GetLogs
  <2>1. since_call' = 0
    BY <1>1, GetLogsAges DEF CallInv
  <2>2. pc' = "send" /\ method' = "eth_getLogs" /\ answers' = << >>
    BY <1>1 DEF GetLogs, GetLogsTimedAt, Begin
  <2>3. QED BY <2>1, <2>2 DEF AgeInv, Opening
<1>2. CASE BlockNumber
  <2>1. since_call = since_first
    BY <1>2 DEF AgeInv, BlockNumber, Opening
  <2>2. QED BY <1>2, <2>1 DEF BlockNumber, Begin, Pass, PassRequests, AgeInv, Opening
<1>3. CASE Send
  BY <1>3 DEF Send, AgeInv, Opening
<1>4. CASE Provider
  <2>1. PICK ans \in Answer : Receive(ans)
    BY <1>4 DEF Provider
  <2>2. /\ pc = "wait" /\ pc' # "wait" /\ answers' = Append(answers, ans)
        /\ since_call = since_first => since_call' = since_first'
    BY <2>1, ReceiveDoes
  <2>3. answers' # << >>
    BY <2>2, AppendProperties DEF CallInv, TypeOK
  <2>4. QED BY <2>2, <2>3 DEF AgeInv, Opening
<1>5. CASE UNCHANGED vars
  BY <1>5 DEF vars, AgeInv, Opening
<1>6. QED BY <1>1, <1>2, <1>3, <1>4, <1>5 DEF Next

LEMMA AgeInvAlways == Spec => []AgeInv
<1>1. CallInv /\ AgeInv /\ [Next]_vars => AgeInv'
  BY AgeInvStep
<1>2. QED BY <1>1, AgeInvInit, CallInvAlways, PTL DEF Spec

(* The first requests of calls for logs keep the delay, whether the calls  *)
(* were retried or not, and each retry waits out its doubled delay or what *)
(* the server asked for, however long anything else takes.                 *)
THEOREM KeepsThePace == Spec => Paced
<1> DEFINE asked == answers'[Len(answers')].retry_after
           doubled == RPC_RETRY_BASE_DELAY * 2^(Len(answers') - 1)
           Pace ==
      /\ pc = "idle" /\ pc' = "send" /\ method' = "eth_getLogs" /\ since_first # None =>
             since_first' = GET_LOGS_REQUEST_DELAY
      /\ pc = "wait" /\ pc' = "send" =>
             since_request' >= Smaller(IF asked = None THEN doubled ELSE asked,
                                       RPC_RETRY_MAX_DELAY)
<1>1. CallInv /\ AgeInv /\ [Next]_vars => [Pace]_vars
  <2> SUFFICES ASSUME CallInv, AgeInv, Next PROVE Pace
    BY DEF vars
  <2>1. CASE GetLogs
    <3>1. pc = "idle"
      BY <2>1 DEF GetLogs, GetLogsTimedAt
    <3>2. since_call = since_first /\ since_first # None =>
             since_first' = GET_LOGS_REQUEST_DELAY
      BY <2>1, GetLogsAges DEF CallInv
    <3>3. QED BY <3>1, <3>2 DEF AgeInv, Opening
  <2>2. CASE BlockNumber
    BY <2>2 DEF BlockNumber, Begin
  <2>3. CASE Send
    BY <2>3 DEF Send
  <2>4. CASE Provider
    <3>1. PICK ans \in Answer : Receive(ans)
      BY <2>4 DEF Provider
    <3>2. /\ pc = "wait" /\ answers' = Append(answers, ans)
          /\ pc' = "send" => since_request' >= Asked(Len(answers), ans)
      BY <3>1, ReceiveDoes DEF AgeInv
    <3>3. answers'[Len(answers')] = ans /\ Len(answers') - 1 = Len(answers)
      <4>1. answers \in Seq(Answer)
        BY DEF CallInv, TypeOK
      <4>2. QED BY <3>2, <4>1, AppendProperties
    <3>4. Asked(Len(answers), ans) = Smaller(IF asked = None THEN doubled ELSE asked,
                                             RPC_RETRY_MAX_DELAY)
      BY <3>3 DEF Asked
    <3>5. QED BY <3>2, <3>4
  <2>5. QED BY <2>1, <2>2, <2>3, <2>4 DEF Next
<1>2. QED BY <1>1, CallInvAlways, AgeInvAlways, PTL DEF Spec, Paced
=============================================================================
