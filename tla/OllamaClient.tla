---------------------------- MODULE OllamaClient ----------------------------
(***************************************************************************)
(* OllamaClient of crates/cfr-atlas-ollama over StdHttpTransport: the       *)
(* calls of the client, each one or two exchanges of HttpBody, against a    *)
(* server whose installed models are replaced while a call is under way.    *)
(*                                                                         *)
(* What a model is like (digest, format, block count, ...) is told by the  *)
(* number of its version; 0 says that it is not installed.                 *)
(***************************************************************************)
EXTENDS HttpBody

CONSTANTS
  Fields,        (* of a model that both /api/tags and /api/show may give    *)
  MaxVersion,    (* bound of the model on versions                           *)
  MaxAddresses   (* bound of the model on the addresses of the host          *)

ASSUME ClientAssumption == MaxVersion \in Nat /\ MaxAddresses \in Nat

Absent == 0
Foreign == MaxVersion + 1        (* of something that is not the model       *)

VARIABLES
  model,       (* the server: version installed under the requested name    *)
  base,        (* scheme of the base URL; "" before the client exists       *)
  call,        (* "list", "show", "generate", "embed", or "" for none       *)
  path,        (* of the exchange under way                                 *)
  stage,       (* "send", "connect", "write", "exchange" of that exchange   *)
  addresses,   (* of the host, not yet tried                                *)
  reply,       (* the server: what the body under way says                  *)
  listed,      (* show_model's summary: the fields the list gave            *)
  record,      (* what the last call returned about the model               *)
  outcome,     (* "answer" or the error of the last call; "" during one     *)
  passed       (* history: versions there were during the call              *)

clientVars == <<model, base, call, path, stage, addresses, reply, listed,
                record, outcome, passed>>
vars == <<clientVars, httpVars>>

NoReply == [status |-> 0, fits |-> FALSE, version |-> Absent]
Nothing == [f \in Fields |-> Absent]
NoRecord == [given |-> Nothing, topology |-> Absent]

-----------------------------------------------------------------------------
(* The server (external).                                                  *)

(* A model is pulled, pulled again or removed.  What happens while the     *)
(* bytes of an answer travel no longer matters to the answer.              *)
ServerChanges ==
  /\ pc = "idle"
  /\ model' \in (0 .. MaxVersion) \ {model}
  /\ passed' = IF call \in {"list", "show"} THEN passed \cup {model'} ELSE passed
  /\ UNCHANGED <<base, call, path, stage, addresses, reply, listed, record, outcome>>
  /\ UNCHANGED httpVars

(* The answer to the request, some failure, or an object of another kind;  *)
(* the bytes of the latter two are an object's and no more.                *)
Replies ==
  {[status |-> IF path # "/api/tags" /\ model = Absent THEN 404 ELSE 200,
    fits |-> path = "/api/tags" \/ model # Absent, version |-> model],
   [status |-> 500, fits |-> FALSE, version |-> Absent],
   [status |-> 200, fits |-> FALSE, version |-> Absent]}

ServerAnswers ==
  /\ stage = "exchange" /\ pc = "idle"
  /\ reply' \in Replies
  /\ Answer(IF reply'.fits THEN Bodies ELSE {<<Close>>})
  /\ UNCHANGED <<model, base, call, path, stage, addresses, listed, record, outcome, passed>>

-----------------------------------------------------------------------------
(* normalize_base_url: of an address of another scheme no client is made.  *)
Schemes == {"http", "https"}

New ==
  /\ base = ""
  /\ base' \in Schemes
  /\ UNCHANGED <<model, call, path, stage, addresses, reply, listed, record, outcome, passed>>
  /\ UNCHANGED httpVars

Request(p) ==
  /\ path' = p
  /\ stage' = "send"

Call(name, p) ==
  /\ base # "" /\ call = ""
  /\ call' = name
  /\ Request(p)
  /\ listed' = Nothing /\ record' = NoRecord /\ outcome' = ""
  /\ passed' = IF name \in {"list", "show"} THEN {model} ELSE {}
  /\ UNCHANGED <<model, base, addresses, reply>>
  /\ UNCHANGED httpVars

ListModels == Call("list", "/api/tags")
ShowModel == Call("show", "/api/tags")
Generate == Call("generate", "/api/generate")
Embed == Call("embed", "/api/embed")

(* The call is over; ? hands the error of the exchange to the caller.      *)
Return(result) ==
  /\ call' = "" /\ path' = "" /\ stage' = ""
  /\ outcome' = result
  /\ addresses' = 0 /\ reply' = NoReply /\ listed' = Nothing

RequireExactKvAccess ==
  /\ base # "" /\ call = ""
  /\ outcome' = "exact_kv_unavailable"
  /\ record' = NoRecord /\ passed' = {}
  /\ UNCHANGED <<model, base, call, path, stage, addresses, reply, listed>>
  /\ UNCHANGED httpVars

-----------------------------------------------------------------------------
(* StdHttpTransport::send.                                                 *)

(* HttpEndpoint::parse: another scheme than http, or a host unknown.       *)
EndpointRefused ==
  /\ stage = "send"
  /\ Return("invalid_base_url")
  /\ UNCHANGED <<model, base, record, passed>>
  /\ UNCHANGED httpVars

Endpoint ==
  /\ stage = "send" /\ base = "http"
  /\ addresses' \in 1 .. MaxAddresses
  /\ stage' = "connect"
  /\ UNCHANGED <<model, base, call, path, reply, listed, record, outcome, passed>>
  /\ UNCHANGED httpVars

(* The next address is tried, or the last error returned.                  *)
ConnectFails ==
  /\ stage = "connect"
  /\ IF addresses > 1
       THEN /\ addresses' = addresses - 1
            /\ UNCHANGED <<call, path, stage, reply, listed, outcome>>
       ELSE Return("transport")
  /\ UNCHANGED <<model, base, record, passed>>
  /\ UNCHANGED httpVars

Connect ==
  /\ stage = "connect"
  /\ stage' = "write" /\ addresses' = 0
  /\ UNCHANGED <<model, base, call, path, reply, listed, record, outcome, passed>>
  /\ UNCHANGED httpVars

Write ==
  /\ stage = "write"
  /\ \/ /\ stage' = "exchange"
        /\ UNCHANGED <<call, path, addresses, reply, listed, outcome>>
     \/ Return("transport")
  /\ UNCHANGED <<model, base, record, passed>>
  /\ UNCHANGED httpVars

ReceiveResponse == Exchange /\ UNCHANGED clientVars

TransportFails ==
  /\ pc \in {"transport", "refused"}
  /\ Return(IF pc = "transport" THEN "transport" ELSE "decode")
  /\ Reset
  /\ UNCHANGED <<model, base, record, passed>>

-----------------------------------------------------------------------------
(* decode_response.                                                        *)
Succeeded == reply.status \in 200 .. 299

(* serde_json wants a whole text of the envelope's shape; every field of   *)
(* ShowResponse has a default, so any object is one.                       *)
Decodes == Last(decoded) = Close /\ (reply.fits \/ path = "/api/show")

(* Mutant: the status is left to the shape of the body.                    *)
AcceptedByShape == pc = "decoded" /\ decoded # << >> /\ Decodes

Accepted == pc = "decoded" /\ Succeeded /\ decoded # << >> /\ Decodes

ResponseRefused ==
  /\ pc = "decoded" /\ ~Accepted
  /\ Return(IF Succeeded THEN "decode" ELSE "http_status")
  /\ Reset
  /\ UNCHANGED <<model, base, record, passed>>

(* The entries of a list: an entry of another model that comes first, and  *)
(* that of the requested one, found by its name or its identifier.         *)
Entries ==
  LET other == [mine |-> FALSE, fields |-> [f \in Fields |-> Foreign]]
      mine(given) == [mine |-> TRUE,
                      fields |-> [f \in Fields |-> IF f \in given THEN reply.version ELSE Absent]]
      own == {<< >>} \cup IF reply.version = Absent
                            THEN {} ELSE {<<mine(given)>> : given \in SUBSET Fields}
  IN  {before \o e : before \in {<< >>, <<other>>}, e \in own}

(* Mutant: the first entry is taken.                                       *)
SummaryFirst(models) == IF models = << >> THEN Nothing ELSE models[1].fields

Summary(models) ==
  LET found == SelectInSeq(models, LAMBDA candidate : candidate.mine)
  IN  IF found = 0 THEN Nothing ELSE models[found].fields

ListReturns ==
  /\ call = "list" /\ Accepted
  /\ \E models \in Entries : record' = [NoRecord EXCEPT !.given = Summary(models)]
  /\ Return("answer")
  /\ Reset
  /\ UNCHANGED <<model, base, passed>>

(* The list of show_model is in; the model is asked for.                   *)
ShowListed ==
  /\ call = "show" /\ path = "/api/tags" /\ Accepted
  /\ \E models \in Entries : listed' = Summary(models)
  /\ Request("/api/show")
  /\ reply' = NoReply
  /\ Reset
  /\ UNCHANGED <<model, base, call, addresses, record, outcome, passed>>

(* topology_from_info and number_for: a count is the one under the prefix  *)
(* that the architecture names.                                            *)
Keys == {"general.architecture", "own.block_count", "other.block_count"}
Topology(info) ==
  IF {"general.architecture", "own.block_count"} \subseteq info THEN reply.version ELSE Absent

Merged(given) ==
  [f \in Fields |-> IF reply.fits /\ f \in given THEN reply.version ELSE listed[f]]

ShowReturns ==
  /\ call = "show" /\ path = "/api/show" /\ Accepted
  /\ \E given \in SUBSET Fields, info \in SUBSET Keys :
       record' = [given |-> Merged(given),
                  topology |-> IF reply.fits THEN Topology(info) ELSE Absent]
  /\ Return("answer")
  /\ Reset
  /\ UNCHANGED <<model, base, passed>>

ReplyReturns ==
  /\ call \in {"generate", "embed"} /\ Accepted
  /\ record' = [NoRecord EXCEPT !.topology = reply.version]
  /\ Return("answer")
  /\ Reset
  /\ UNCHANGED <<model, base, passed>>

-----------------------------------------------------------------------------
Init ==
  /\ Idle
  /\ model \in 0 .. MaxVersion
  /\ base = "" /\ call = "" /\ path = "" /\ stage = "" /\ addresses = 0
  /\ reply = NoReply /\ listed = Nothing /\ record = NoRecord
  /\ outcome = "" /\ passed = {}

Step ==
  \/ EndpointRefused \/ Endpoint \/ ConnectFails \/ Connect \/ Write
  \/ ServerAnswers \/ ReceiveResponse \/ TransportFails
  \/ ResponseRefused \/ ListReturns \/ ShowListed \/ ShowReturns \/ ReplyReturns

Next ==
  \/ New \/ ListModels \/ ShowModel \/ Generate \/ Embed \/ RequireExactKvAccess
  \/ Step
  \/ ServerChanges

(* A call runs on, and no socket operation takes longer than its timeout:  *)
(* a server that is silent is a Respond that ReadFails comes before.       *)
Spec == Init /\ [][Next]_vars /\ WF_vars(Step)

-----------------------------------------------------------------------------
(* Properties.                                                             *)

(* A call goes on to its answer or to its second request only with the     *)
(* whole body of a response that succeeded, however the server cut it into *)
(* chunks and wherever the connection broke; a part of a body or the body  *)
(* of an error is never taken for an answer.                               *)
ReplyIsWhole ==
  [][pc = "decoded" /\ pc' = "idle" /\ outcome' \in {"", "answer"}
       => decoded = body /\ reply.status \in 200 .. 299]_vars

(* show_model asks twice, and the model may be replaced in between: still  *)
(* whatever the record says of the model was true of it during the call,   *)
(* and is neither another model's nor of the time before.                  *)
RecordWasTrue ==
  outcome = "answer" /\ passed # {} =>
    /\ \A f \in Fields : record.given[f] \in passed \cup {Absent}
    /\ record.topology \in passed \cup {Absent}

(* Every call returns: with dead addresses, a silent or broken server, and *)
(* any body.                                                               *)
CallReturns == (call # "") ~> (call = "")

=============================================================================
