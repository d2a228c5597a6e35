----------------------------- MODULE NodeClient -----------------------------
(***************************************************************************)
(* The Node SDK around its key store: KeycloakClient (client.ts), the auth *)
(* client (auth.ts), the admin client and its requests (admin/), and the   *)
(* reader that caps a response (token-response-cap.ts).                    *)
(*                                                                         *)
(* Three results are made once and shared: the discovered configuration,   *)
(* the admin token and the admin client.  Each is a cell of one shape: a   *)
(* held value, and a slot with the promise of the flight that makes it.  A *)
(* flight may need another cell: the admin client needs a token, a token   *)
(* needs the configuration.  JavaScript runs one step at a time, from      *)
(* await to await; an action below is such a step.                         *)
(***************************************************************************)
EXTENDS Integers, SequencesExt, FiniteSetsExt

CONSTANTS
  Callers,      \* the consumer's concurrent calls
  Nobody,       \* no caller
  Ops,          \* the operations they choose from
  Cap,          \* TOKEN_RESPONSE_MAX_BYTES
  ReadChunk,    \* READ_CHUNK_BYTES
  MaxPieces,    \* bound: pieces a response body arrives in
  MaxCalls      \* bound: calls of all callers together

ASSUME SizesArePositive == {Cap, ReadChunk, MaxPieces, MaxCalls} \subseteq Nat \ {0}

VARIABLES
  config,   \* the validated configuration, or NotYet, or Refused
  cell,     \* the three shared results
  call      \* what each caller is doing, and how its last call ended

vars == <<config, cell, call>>

NotYet == [state |-> "not yet"]
Refused == [state |-> "refused"]
Cells == {"conf", "token", "admin"}

ASSUME NamesAreDistinct == Nobody \notin Callers \cup Cells /\ Callers \cap Cells = {}

\* The facade: which request each of its methods makes, all through call().
UsersResource == [create |-> "create", get |-> "readOne", search |-> "read", update |-> "write", delete |-> "write"]
ClientsResource == [create |-> "create", get |-> "readOne", findByClientId |-> "read", update |-> "write", delete |-> "write"]
RealmsResource == [create |-> "create", get |-> "readOne", list |-> "read", update |-> "write", delete |-> "write"]
RolesResource == [create |-> "create", get |-> "readOne", list |-> "read", update |-> "write", delete |-> "write"]
GroupsResource == [create |-> "create", get |-> "readOne", list |-> "read", update |-> "write", delete |-> "write"]
ResourceOps == UNION {Range(r) : r \in {UsersResource, ClientsResource, RealmsResource, RolesResource, GroupsResource}}
GrantOps == {"grant", "exchange"}
-----------------------------------------------------------------------------
(* Configuration *)

\* What the consumer may pass: the address, the secret, a deadline.
Inputs == [url : {"absolute", "relative"}, secret : BOOLEAN,
           deadline : {"absent", "positive", "zero", "over 2^31-1", "infinite"}]

\* Mutant: the deadlines are not checked.
AnyDeadline(i) == TRUE

\* The three required values and the address are checked first, then the deadlines.
ValidDeadline(i) == i.deadline \in {"absent", "positive"}
Valid(i) == i.url = "absolute" /\ ValidDeadline(i)

\* KeycloakClient.create: the configuration and the auth client, nothing on the network.
Create(i) ==
  /\ config = NotYet
  /\ config' = IF Valid(i) THEN [state |-> "ready", secret |-> i.secret,
                                      deadline |-> IF i.deadline = "absent" THEN "positive" ELSE i.deadline]
                           ELSE Refused
  /\ UNCHANGED <<cell, call>>

Ready == config.state = "ready"

\* AbortSignal.timeout ends a request: at the deadline; at once for one of zero or over 2^31-1 (a
\* timer of 1 ms); before it is sent for an infinite one (a range error).  Discovery and the grants
\* clamp it to a second at least.  Only http.ts tests its truth and sets no signal for zero.
Timed == Ready
ResourceTimed == Ready /\ config.deadline # "zero"
-----------------------------------------------------------------------------
(* Single flights *)

Needs == [k \in Cells |-> CASE k = "admin" -> "token" [] k = "token" -> "conf" [] OTHER -> "none"]

\* Mutant: the promise under way is not shared.
Unshared(k) == ~cell[k].held

\* The slot of a cell is empty, holds the promise of the flight under way, or that of
\* one that has settled while the call that started it has not resumed yet.
Idle(k) == ~cell[k].held /\ cell[k].slot = "empty"

\* A flight starts what it needs before its first await.
Starts(k) ==
  LET from(j) == IF j # "none" /\ Idle(j) THEN {j} ELSE {}
      and(js, j) == IF js = {} THEN {} ELSE js \cup (IF j \in js /\ Needs[j] # "none" THEN from(Needs[j]) ELSE {})
  IN  and(and(from(k), k), Needs[k])

\* What awaiting k gives: its value, the outcome in its slot, or a wait.
Awaiting(k) == IF cell[k].held THEN "ok" ELSE IF Idle(k) THEN "pending" ELSE cell[k].slot

\* "by" is who started the flight: it resumes first in its finally block (Unwind).
After(k, asker) ==
  [j \in Cells |->
    IF j \notin Starts(k) THEN cell[j]
    ELSE [cell[j] EXCEPT !.slot = "pending", !.out = @ + 1,
                         !.by = IF j = k THEN asker ELSE CHOOSE i \in Cells : Needs[i] = j,
                         !.waits = IF Needs[j] = "none" THEN "ok" ELSE Awaiting(Needs[j])]]

\* The caller goes on with the value at once, or awaits the promise.
AskFor(c, k, next) ==
  /\ cell' = After(k, c)
  /\ call' = [call EXCEPT ![c] = IF cell[k].held THEN next ELSE [next EXCEPT !.at = k, !.got = Awaiting(k)]]

\* A promise settles: whoever awaits it gets the outcome.
Settle(k, out, stays) ==
  /\ cell' = [j \in Cells |->
       IF j = k THEN [cell[k] EXCEPT !.slot = out, !.held = stays, !.out = @ - 1,
                                     !.made = IF out = "ok" THEN @ + 1 ELSE @]
       ELSE IF Needs[j] = k /\ cell[j].waits = "pending" THEN [cell[j] EXCEPT !.waits = out] ELSE cell[j]]
  /\ call' = [c \in Callers |->
       [call[c] EXCEPT !.got = IF call[c].at = k /\ @ = "pending" THEN out ELSE @,
                       !.hit = @ \/ out # "ok"]]

\* A cell's own exchange with the realm is under way.
Requesting(k) == k \in {"conf", "token"} /\ cell[k].slot = "pending" /\ cell[k].waits = "ok"

(* What comes of it. *)

\* The error of a failed exchange: a timeout, a TypeError, with a cause or not, the codes.
Errors == [timeout : BOOLEAN, typeError : BOOLEAN, cause : BOOLEAN, code : BOOLEAN, causeCode : BOOLEAN]
isTransportError(e) == e.timeout \/ (e.typeError /\ e.cause) \/ e.code \/ (e.cause /\ e.causeCode)
FailedInTransport == {isTransportError(e) : e \in Errors}

\* Discovery tells transport failures apart, a grant wraps them like every other.
Surfaces(k, inTransport) == IF k = "conf" /\ inTransport THEN "Transport" ELSE "Auth"

\* A token response, and what is made of it: a token set, the value to send, a cached token.
Tokens == [text : {"none", "b64token", "b64token between blanks", "anything else"},
           expiresIn : {"absent", "not a number", "within the skew", "longer"}]
tokenSetFromResponse(t) == t.text # "none"
sendableBearer(t) == t.text \in {"b64token", "b64token between blanks"}
Outlives(t) == t.expiresIn = "longer"

\* The answer of the realm.  runDiscovery and #fetch store what they made as they
\* settle; a token that outlives no skew is stored stale, one that cannot be sent is not.
Answered(k) ==
  /\ Requesting(k)
  /\ \/ k = "conf" /\ Settle(k, "ok", TRUE)
     \/ k = "token" /\ \E t \in Tokens :
          IF tokenSetFromResponse(t) /\ sendableBearer(t) THEN Settle(k, "ok", Outlives(t))
          ELSE Settle(k, "Auth", FALSE)
  /\ UNCHANGED config

\* No answer, a refusal, or one that is too large.
Fails(k, inTransport) ==
  /\ Requesting(k)
  /\ Settle(k, Surfaces(k, inTransport), FALSE)
  /\ UNCHANGED config

\* The realm never answers: the deadline of the request ends it.
TimesOut(k) == Timed /\ Fails(k, TRUE)

\* p started the flight of k and has not resumed since.
Originates(p, k) == k \in Cells /\ cell[k].by = p

\* What a flight waits for has settled.  A token goes on to its grant; the admin client
\* was only waiting for its first token (the fail-fast check), whose failure passes call().
Proceed(k) ==
  LET got == cell[k].waits
  IN  /\ cell[k].slot = "pending" /\ got # "pending" /\ ~Originates(k, Needs[k])
      /\ \/ got # "ok" /\ Settle(k, got, FALSE)
         \/ got = "ok" /\ k = "admin" /\ Settle(k, "ok", FALSE)
      /\ UNCHANGED config

\* Mutant: a rejected promise stays in its slot.
SlotKept(k) == IF cell[k].slot = "ok" THEN "empty" ELSE cell[k].slot

\* The call that started the flight resumes: admin() caches the client only here, and
\* the finally block empties the slot whatever the outcome.
SlotAfter(k) == "empty"
Unwind(k) ==
  /\ cell[k].by # Nobody /\ cell[k].slot # "pending"
  /\ cell' = [cell EXCEPT ![k] =
       [cell[k] EXCEPT !.slot = SlotAfter(k), !.by = Nobody, !.held = @ \/ (k = "admin" /\ cell[k].slot = "ok")]]
  /\ UNCHANGED <<config, call>>

\* The cached token reaches its expiry less the skew.
TokenExpires ==
  /\ cell["token"].held
  /\ cell' = [cell EXCEPT !["token"].held = FALSE]
  /\ UNCHANGED <<config, call>>
-----------------------------------------------------------------------------
(* Calls *)

\* Some flight is between its settling and the resumption of the call that started it.
Unwinding == \E k \in Cells : cell[k].by # Nobody /\ cell[k].slot \notin {"pending", "ok"}

Fresh(c, op) ==
  [call[c] EXCEPT !.op = op, !.at = "sent", !.got = "none", !.res = "none", !.applied = FALSE,
                  !.answer = "none", !.body = "none", !.calls = @ + 1, !.hit = Unwinding]

Ends(c, r) == [call[c] EXCEPT !.at = "idle", !.got = "none", !.res = r]

\* admin() and the resource operations, which all go through it: a configuration
\* without a secret is refused before anything else.
AskAdmin(c, op) ==
  /\ op \in ResourceOps \cup {"admin"}
  /\ IF config.secret THEN AskFor(c, "admin", [Fresh(c, op) EXCEPT !.at = "client"])
     ELSE /\ call' = [call EXCEPT ![c] = [Fresh(c, op) EXCEPT !.at = "idle", !.res = "Config"]]
          /\ UNCHANGED cell

\* The grants and introspect discover first; logout goes straight to its endpoint.
AskAuth(c, op) ==
  \/ op \in GrantOps /\ AskFor(c, "conf", Fresh(c, op))
  \/ op = "logout" /\ call' = [call EXCEPT ![c] = Fresh(c, op)] /\ UNCHANGED cell

Ask(c, op) ==
  /\ Ready /\ call[c].at = "idle" /\ MapThenSumSet(LAMBDA d : call[d].calls, Callers) < MaxCalls
  /\ AskAdmin(c, op) \/ AskAuth(c, op)
  /\ UNCHANGED config

\* The promise a caller awaits has settled.
Resume(c) ==
  /\ call[c].at \in Cells /\ call[c].got # "pending" /\ ~Originates(c, call[c].at)
  /\ call' = [call EXCEPT ![c] =
       IF call[c].got # "ok" THEN Ends(c, call[c].got)
       ELSE [call[c] EXCEPT !.at = IF @ = "admin" THEN "client" ELSE "sent", !.got = "none"]]
  /\ UNCHANGED <<config, cell>>

\* With the client at hand: admin() returns it, a resource operation takes a token
\* before it forms its request.
UseClient(c) ==
  /\ call[c].at = "client"
  /\ IF call[c].op = "admin" THEN call' = [call EXCEPT ![c] = Ends(c, "ok")] /\ UNCHANGED cell
     ELSE AskFor(c, "token", [call[c] EXCEPT !.at = "sent"])
  /\ UNCHANGED config

(* Response bodies. *)

\* A body: the pieces it arrives in, and whether it breaks off after them.
Bodies == [pieces : SeqOf(1..ReadChunk, MaxPieces), breaks : BOOLEAN]
Size(b) == FoldSeq(+, 0, b.pieces)

\* Mutant: the last read asks for the cap and not for the byte after it.
ReadToCap(st, n) ==
  LET v == Min({n, Cap - st.len})
  IN  [st EXCEPT !.len = @ + v, !.buffer = Max({@, st.len + v})]

\* readCapped with a BYOB reader: every read takes what is missing up to one byte past the
\* cap, and the buffer doubles as far as that.  A write past the buffer's end throws.
ReadInto(st, n) ==
  LET v == Min({n, Cap + 1 - st.len})
      grown == IF st.len + v > st.buffer THEN Min({Max({2 * st.buffer, st.len + v}), Cap + 1}) ELSE st.buffer
  IN  [len |-> st.len + v, buffer |-> grown, overrun |-> st.overrun \/ st.len + v > grown]
ReadByob(b) == FoldLeft(ReadInto, [len |-> 0, buffer |-> Min({ReadChunk, Cap + 1}), overrun |-> FALSE], b.pieces)

\* readCappedChunks, where there is no BYOB reader: the piece that passes the cap is refused.
ReadChunks(b) == FoldLeft(LAMBDA st, n : IF st > Cap THEN st ELSE st + n, 0, b.pieces)

\* What either reader makes of a body.
ReadCapped(b, byob) ==
  LET got == ReadByob(b)
  IN  CASE byob /\ got.overrun -> "overrun"
        [] IF byob THEN got.len > Cap ELSE ReadChunks(b) > Cap -> "too large"
        [] OTHER -> IF b.breaks THEN "cut" ELSE "whole"

(* What the realm answers a resource request. *)
Statuses == {"2xx", "403", "404", "409", "other"}
MayApply(status) == IF status = "2xx" THEN {TRUE} ELSE IF status = "other" THEN BOOLEAN ELSE {FALSE}

\* Mutant: the failure of the reader is not caught.
ErrorTextUncaught(b, byob, declared) == IF ReadCapped(b, byob) = "whole" THEN "text" ELSE "thrown"

\* errorBody: a body that declares more than the cap is not read; one that is too large,
\* or breaks off, is read as the empty text.
ErrorText(b, byob, declared) == IF (declared /\ Size(b) > Cap) \/ ReadCapped(b, byob) # "whole" THEN "empty" ELSE "text"
ErrorTexts == {ErrorText(b, byob, declared) : b \in Bodies, byob \in BOOLEAN, declared \in BOOLEAN}
\* The complete and broken bodies a reply may have, by size, and what the readers make of them.
Reads == {[size |-> Size(b), breaks |-> b.breaks, got |-> ReadCapped(b, byob)] : b \in Bodies, byob \in BOOLEAN}
ByStatus == [s \in {"403", "404", "409", "other"} |->
  CASE s = "403" -> "Forbidden" [] s = "404" -> "NotFound" [] s = "409" -> "Conflict" [] OTHER -> "Admin"]

\* A read's success body is text() without a cap; the success body of a write is
\* discarded, and its failure with it; create wants an id in the Location header.
SuccessResult(op, breaks, location) ==
  CASE op \in {"read", "readOne"} -> IF breaks THEN "Transport" ELSE "ok"
    [] op = "create" -> IF location THEN "ok" ELSE "raw"
    [] OTHER -> "ok"

Result(op, status, text, breaks, location) ==
  IF status = "2xx" THEN SuccessResult(op, breaks, location)
  ELSE IF text \in {"empty", "text"} THEN ByStatus[status] ELSE "Transport"

\* A failed exchange with the realm: every call under way may come to fail by it.
Ended(c, rec, fault) ==
  call' = [d \in Callers |-> [(IF d = c THEN rec ELSE call[d]) EXCEPT !.hit = @ \/ fault]]

Replies(c) ==
  /\ call[c].at = "sent" /\ call[c].op \in ResourceOps
  /\ \E s \in Statuses, text \in ErrorTexts, breaks \in BOOLEAN, location \in BOOLEAN : \E done \in MayApply(s) :
       Ended(c, [Ends(c, Result(call[c].op, s, text, breaks, location)) EXCEPT !.applied = done, !.answer = s],
             s # "2xx" \/ breaks \/ ~location)
  /\ UNCHANGED <<config, cell>>

\* No answer: the connection breaks or the deadline passes, before or after the realm acted.
NoReply(c) ==
  /\ call[c].at = "sent" /\ call[c].op \in ResourceOps
  /\ \E done \in BOOLEAN : Ended(c, [Ends(c, "Transport") EXCEPT !.applied = done], TRUE)
  /\ UNCHANGED <<config, cell>>

(* The token endpoint. *)

IdTokens == {"missing", "forged", "of another client", "of another login", "good"}

\* openid-client compares the claims when a nonce is expected, without the signature.
ClaimsMatch(idToken) == idToken \in {"forged", "good"}

\* #verifyIdToken: present, and good for the validator whose audience is the client itself.
VerifyIdToken(idToken) == idToken = "good"
Exchange(nonce, idToken) == nonce => ClaimsMatch(idToken) /\ VerifyIdToken(idToken)

Bounded(size) == IF size <= Cap THEN "within" ELSE "over"

\* The body passes the capped reader; every failure is wrapped in an auth error.  "grant"
\* is the client credentials grant, refresh and introspect alike; logout reads no body.
AuthReplies(c) ==
  /\ call[c].at = "sent" /\ call[c].op \in GrantOps \cup {"logout"}
  /\ \E accepted \in BOOLEAN, b \in Reads, nonce \in BOOLEAN, idToken \in IdTokens :
       LET read == accepted /\ (call[c].op \in GrantOps => b.got = "whole")
           good == read /\ (call[c].op = "exchange" => Exchange(nonce, idToken))
       IN  /\ accepted => ~b.breaks
           /\ Ended(c, [Ends(c, IF good THEN "ok" ELSE "Auth")
                          EXCEPT !.answer = IF call[c].op = "exchange" /\ nonce THEN idToken ELSE "none",
                                 !.body = IF accepted /\ call[c].op = "grant" THEN Bounded(b.size) ELSE @], ~good)
  /\ UNCHANGED <<config, cell>>

AuthFails(c) ==
  /\ call[c].at = "sent" /\ call[c].op \in GrantOps \cup {"logout"}
  /\ Ended(c, Ends(c, "Auth"), TRUE)
  /\ UNCHANGED <<config, cell>>
-----------------------------------------------------------------------------
Init ==
  /\ config = NotYet
  /\ cell = [k \in Cells |-> [held |-> FALSE, slot |-> "empty", waits |-> "ok", by |-> Nobody,
                               out |-> 0, made |-> 0]]
  /\ call = [c \in Callers |-> [op |-> "none", at |-> "idle", got |-> "none", res |-> "none",
                                applied |-> FALSE, answer |-> "none", body |-> "none", calls |-> 0, hit |-> FALSE]]

Flight(k) == Answered(k) \/ (\E inTransport \in FailedInTransport : Fails(k, inTransport)) \/ Proceed(k) \/ Unwind(k)
Reply(c) == Replies(c) \/ NoReply(c) \/ AuthReplies(c) \/ AuthFails(c)

Next ==
  \/ \E i \in Inputs : Create(i)
  \/ \E k \in Cells : Flight(k)
  \/ TokenExpires
  \/ \E c \in Callers : (\E op \in Ops : Ask(c, op)) \/ Resume(c) \/ UseClient(c) \/ Reply(c)

\* Steps of JavaScript itself run to the end; of the network only deadlines can be relied on.
Expires(c) == (ResourceTimed /\ NoReply(c)) \/ (Timed /\ AuthFails(c))
Spec ==
  /\ Init /\ [][Next]_vars
  /\ \A k \in Cells : WF_vars(TimesOut(k)) /\ WF_vars(Proceed(k)) /\ WF_vars(Unwind(k))
  /\ \A c \in Callers : WF_vars(Resume(c)) /\ WF_vars(UseClient(c)) /\ WF_vars(Expires(c))
-----------------------------------------------------------------------------
(* What the SDK promises. *)

\* Two calls never discover, fetch a token or create an admin client at the same time, and
\* the configuration and the client are made once: every consumer shares them.
OneOfEach == \A k \in Cells : cell[k].out <= 1 /\ (k # "token" => cell[k].made <= 1)

\* A failure is not remembered: a call fails only if something failed while it ran, or if
\* the call that met the failure had not resumed yet.
FailuresAreFresh == \A c \in Callers : call[c].res \in {"none", "ok", "Config"} \/ call[c].hit

\* The outcome says what became of a write: one that reports success was applied, and one
\* refused by the SDK or by the realm's 403, 404 or 409 was not.  An answered request is
\* reported by its status, whatever became of the body of an error or of a write's success.
OutcomesTellTheTruth ==
  \A c \in Callers : LET r == call[c] IN
    r.op \in ResourceOps =>
      /\ r.res = "ok" => r.applied
      /\ r.res \in {"Config", "Auth", "NotFound", "Conflict", "Forbidden"} => ~r.applied
      /\ r.answer \in {"403", "404", "409", "other"} => r.res = ByStatus[r.answer]
      /\ r.answer = "2xx" /\ r.op \notin {"read", "readOne"} => r.res \in {"ok", "raw"}

\* An exchange that was given a nonce returns tokens only with an id_token that is signed by
\* the realm, made for this client and carries that nonce.
NonceBinds == \A c \in Callers : call[c].op = "exchange" /\ call[c].res = "ok" => call[c].answer \in {"none", "good"}

\* A complete response the realm accepted is refused exactly if it is longer than the cap,
\* whichever reader the platform has and however the body was cut into pieces.
CapIsExact ==
  \A c \in Callers : call[c].body # "none" => (call[c].res = "ok" <=> call[c].body = "within")

\* What the realm sends is judged before it is used.
RepliesAreJudged == NonceBinds /\ CapIsExact

\* Every call ends, although the realm may never answer: each wait has a deadline.
EveryCallReturns == \A c \in Callers : call[c].at # "idle" ~> call[c].at = "idle"
=============================================================================
