----------------------------- MODULE RpcClient ------------------------------
(***************************************************************************)
(* reference/docchain/indexer.py: one EthereumRpc object, used by one      *)
(* caller.  call() sends a request up to RPC_MAX_RETRIES + 1 times and     *)
(* sleeps in between; get_logs() waits first when the last get_logs() has  *)
(* begun a moment ago.                                                     *)
(*                                                                         *)
(* Time is counted in ticks.  An age stops growing at the longest time that *)
(* anything compares it with.                                              *)
(***************************************************************************)
EXTENDS Integers, SequencesExt

CONSTANTS
    RPC_MAX_RETRIES,
    GET_LOGS_REQUEST_DELAY,             \* in ticks
    RPC_RETRY_BASE_DELAY, RPC_RETRY_MAX_DELAY,
    RetryAfters,                        \* Retry-After values a server sends
    Latencies,                          \* what a request or the caller may take
    None

ASSUME RpcAssumption ==
    /\ RPC_MAX_RETRIES \in Nat /\ GET_LOGS_REQUEST_DELAY \in Nat
    /\ RPC_RETRY_BASE_DELAY \in Nat /\ RPC_RETRY_MAX_DELAY \in Nat
    /\ RetryAfters \subseteq Nat /\ None \notin Nat
    /\ Latencies \subseteq Nat /\ Latencies # {}

(* Arithmetic that the provers have no rule for.                           *)
ASSUME PowersOfTwo == \A n \in 0 .. RPC_MAX_RETRIES : 2^n \in Nat

VARIABLES
    pc,                 \* "idle", "send" or "wait"
    method,             \* of the call in progress
    answers,            \* to the requests of the call, one for each attempt
    outcome,            \* what the last call returned or raised
    since_call,         \* age of _last_get_logs_at, None before the first
    since_first,        \* history: age of the first request of the last get_logs
    since_request       \* history: age of the last request

vars == <<pc, method, answers, outcome, since_call, since_first, since_request>>

Methods == {"eth_getLogs", "eth_blockNumber"}
Outcomes == {"result", "RpcError", "RateLimitError", "BlockRangeLimitError", "OtherError"}

(***************************************************************************)
(* What can come back for a request.  `status' is the HTTP status, or      *)
(* "unreachable" when the connection fails (URLError).  `body' is "broken" *)
(* when reading it fails in another way (a time-out, a reset, no JSON, no  *)
(* result) and "mistyped" when the result is not a list or not a string.   *)
(* `error' is what the error in the body mentions, {"none"} without one.   *)
(***************************************************************************)
Answer ==
    {ans \in [status : {"unreachable", "200", "429", "500"},
              body : {"read", "oversized", "broken", "mistyped"},
              error : SUBSET {"rate limit", "block range"} \cup {{"none"}},
              retry_after : RetryAfters \cup {None}] :
        /\ ans.status = "unreachable" => ans.body = "read"
        /\ ans.status = "unreachable" \/ ans.body # "read" => ans.error = {"none"}
        /\ ans.body = "mistyped" => ans.status = "200"
        /\ ans.status # "429" => ans.retry_after = None}

HasError(ans) == ans.error # {"none"}
Unusable(ans) == ans.body # "read"

-----------------------------------------------------------------------------
(* Classification.                                                         *)

MentionsRateLimit(ans) == "rate limit" \in ans.error
BlockRangeLimit(meth, ans) == meth = "eth_getLogs" /\ "block range" \in ans.error

Retryable(ans) ==
    \/ ans.status = "unreachable"
    \/ ~Unusable(ans) /\ ans.status = "429"
    \/ ~Unusable(ans) /\ ans.status = "200" /\ MentionsRateLimit(ans)

(* What the call comes to when an answer is not retried, the last one of   *)
(* the retryable ones included.                                            *)
Result(meth, ans) ==
    IF ans.status = "unreachable" THEN "RpcError"
    ELSE IF Unusable(ans) THEN IF ans.body = "broken" THEN "OtherError" ELSE "RpcError"
    ELSE IF Retryable(ans) THEN "RateLimitError"
    ELSE IF ans.status = "200" /\ ~HasError(ans) THEN "result"
    ELSE IF BlockRangeLimit(meth, ans) THEN "BlockRangeLimitError"
    ELSE "RpcError"

Smaller(a, b) == IF a < b THEN a ELSE b

(* Seeded fault: the delay does not double.                                *)
BackoffFromBase(attempt) == Smaller(RPC_RETRY_BASE_DELAY, RPC_RETRY_MAX_DELAY)

(* _sleep_for_retry: a Retry-After header is obeyed up to the maximum;     *)
(* else the delay doubles, with up to a quarter added to it.               *)
Backoff(attempt) == Smaller(RPC_RETRY_BASE_DELAY * 2^attempt, RPC_RETRY_MAX_DELAY)

Delays(attempt, ans) ==
    IF ans.retry_after # None
    THEN {Smaller(ans.retry_after, RPC_RETRY_MAX_DELAY)}
    ELSE Backoff(attempt) .. Backoff(attempt) + Backoff(attempt) \div 4

-----------------------------------------------------------------------------
(* Time.                                                                   *)

Ages(longest) == (0 .. longest) \cup {None}
Aged(age, ticks, longest) ==
    IF age = None THEN age ELSE Smaller(age + ticks, longest)

PassRequests(ticks) ==
    /\ since_first' = Aged(since_first, ticks, GET_LOGS_REQUEST_DELAY)
    /\ since_request' = Aged(since_request, ticks, RPC_RETRY_MAX_DELAY)

Pass(ticks) ==
    /\ since_call' = Aged(since_call, ticks, GET_LOGS_REQUEST_DELAY)
    /\ PassRequests(ticks)

-----------------------------------------------------------------------------
(* _throttle_get_logs: how long the call waits before it begins.           *)
Throttle(age) ==
    IF age # None /\ age < GET_LOGS_REQUEST_DELAY
    THEN GET_LOGS_REQUEST_DELAY - age
    ELSE 0

Begin(meth) ==
    /\ pc' = "send" /\ method' = meth /\ answers' = << >> /\ outcome' = "none"

GetLogsTimedAt(age) ==
    /\ pc = "idle"
    /\ Begin("eth_getLogs")
    /\ \E busy \in Latencies :
          LET pause == Throttle(Aged(since_call, busy, GET_LOGS_REQUEST_DELAY))
          IN  /\ PassRequests(busy + pause)
              /\ since_call' = Smaller(age * pause, GET_LOGS_REQUEST_DELAY)

(* Seeded fault: the time of the call is taken before the wait.            *)
GetLogsTimedEarly == GetLogsTimedAt(1)

(* The caller has been busy for a while before it calls; the time of the   *)
(* call is taken after the wait.                                           *)
GetLogs == GetLogsTimedAt(0)

BlockNumber ==
    /\ pc = "idle"
    /\ Begin("eth_blockNumber")
    /\ \E busy \in Latencies : Pass(busy)

Send ==
    /\ pc = "send"
    /\ pc' = "wait"
    /\ since_first' =
          IF method = "eth_getLogs" /\ answers = << >> THEN 0 ELSE since_first
    /\ since_request' = 0
    /\ UNCHANGED <<method, answers, outcome, since_call>>

ReceiveAtMost(retries, ans) ==
    /\ pc = "wait"
    /\ answers' = Append(answers, ans)
    /\ \E latency \in Latencies :
          IF Retryable(ans) /\ Len(answers) < retries
          THEN /\ \E delay \in Delays(Len(answers), ans) : Pass(latency + delay)
               /\ pc' = "send" /\ outcome' = "none"
          ELSE /\ Pass(latency)
               /\ pc' = "idle" /\ outcome' = Result(method, ans)
    /\ UNCHANGED method

(* Seeded faults: one attempt too many; one too few.                       *)
ReceiveOneMore(ans) == ReceiveAtMost(RPC_MAX_RETRIES + 1, ans)
ReceiveOneLess(ans) == ReceiveAtMost(RPC_MAX_RETRIES - 1, ans)

(* An answer is taken: the request is sent again after a sleep, or the     *)
(* call ends.                                                              *)
Receive(ans) == ReceiveAtMost(RPC_MAX_RETRIES, ans)

-----------------------------------------------------------------------------
Init ==
    /\ pc = "idle" /\ method = "none" /\ answers = << >> /\ outcome = "none"
    /\ since_call = None /\ since_first = None /\ since_request = None

Provider == \E ans \in Answer : Receive(ans)

Next == GetLogs \/ BlockNumber \/ Send \/ Provider

Spec == Init /\ [][Next]_vars

-----------------------------------------------------------------------------
(* Properties.                                                             *)

(* Every variable has its type, and no call makes more than all attempts.  *)
TypeOK ==
    /\ pc \in {"idle", "send", "wait"}
    /\ method \in Methods \cup {"none"}
    /\ answers \in Seq(Answer) /\ Len(answers) <= RPC_MAX_RETRIES + 1
    /\ outcome \in Outcomes \cup {"none"}
    /\ {since_call, since_first} \subseteq Ages(GET_LOGS_REQUEST_DELAY)
    /\ since_request \in Ages(RPC_RETRY_MAX_DELAY)

Over == pc = "idle" /\ answers # << >>
LastAnswer == answers[Len(answers)]

(* A call gives up on a rate limit or a lost connection only when every    *)
(* attempt has met one; it does not go on after any other answer, and it   *)
(* reports what the last attempt met.  So a provider that turns away at    *)
(* most RPC_MAX_RETRIES requests in a row goes unnoticed, and a rate limit *)
(* that lasts, by status 429 or as an error under status 200, is reported  *)
(* as one, never as an error the scan splits for.                          *)
GivesUpOnlyWhenExhausted ==
    Over =>
        /\ \A i \in 1 .. Len(answers) - 1 : Retryable(answers[i])
        /\ Retryable(LastAnswer) => Len(answers) = RPC_MAX_RETRIES + 1
        /\ (outcome = "RateLimitError") <=>
               Retryable(LastAnswer) /\ LastAnswer.status # "unreachable"
        /\ (outcome = "result") <=>
               /\ LastAnswer.status = "200" /\ LastAnswer.body = "read"
               /\ ~HasError(LastAnswer)
        /\ outcome = "BlockRangeLimitError" => method = "eth_getLogs"

(* The first requests of two calls for logs are GET_LOGS_REQUEST_DELAY     *)
(* apart, whatever the calls and the caller did in between; and a retry    *)
(* comes as long after the attempt before as the server asked for, or as   *)
(* the doubling delay is by then, both up to the maximum.                  *)
Paced ==
    [][/\ pc = "idle" /\ pc' = "send" /\ method' = "eth_getLogs" /\ since_first # None =>
              since_first' = GET_LOGS_REQUEST_DELAY
       /\ pc = "wait" /\ pc' = "send" =>
              LET asked == answers'[Len(answers')].retry_after
                  doubled == RPC_RETRY_BASE_DELAY * 2^(Len(answers') - 1)
              IN  since_request' >= Smaller(IF asked = None THEN doubled ELSE asked,
                                            RPC_RETRY_MAX_DELAY)]_vars
=============================================================================
