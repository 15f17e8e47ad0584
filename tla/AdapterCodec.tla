---------------------------- MODULE AdapterCodec ----------------------------
(***************************************************************************)
(* What the real adapter makes of a call's arguments and of the contract's *)
(* answer (services/sorobanAdapter: index.js, real.js, rpc.js, decode.js): *)
(* arguments are encoded as ScVals; what is read comes back in the types of*)
(* the SDK, is made safe for JSON, and decoded into what the stub returns. *)
(*                                                                         *)
(* A value is a pair of its type and what it is: the number 7, the decimal *)
(* string "7" and the u64 7 are <<"number", 7>>, <<"string", 7>> and       *)
(* <<"u64", 7>>; bytes and their hexadecimal string likewise.  A struct or *)
(* an object's fields are a record of values.                              *)
(***************************************************************************)
EXTENDS DocumentStatus

Null == <<"null", 0>>
Number(n) == <<"number", n>>
String(s) == <<"string", s>>
Flag(b) == <<"boolean", b>>
List(elements) == <<"array", elements>>
Object(fields) == <<"object", fields>>

-----------------------------------------------------------------------------
(* Encoders. *)

SymbolScVal(s) == <<"symbol", s>>
StringScVal(s) == <<"string", s>>
AddressScVal(a) == <<"address", a>>
U32ScVal(n) == <<"u32", n>>
U64ScVal(n) == <<"u64", n>>
BytesN32ScVal(h) == <<"bytes", h>>
EnumScVal(variant, payload) == <<"vec", <<SymbolScVal(variant)>> \o payload>>

\* The action of an on-chain proposal type, of the document, the threshold or the
\* code it names.
MapProposalAction(type, x) ==
  CASE type = "revocation"       -> [type |-> String("RevokeCertificate"), docHash |-> String(x)]
    [] type = "governance_rule"  -> [type |-> String("UpdateThreshold"), value |-> Number(x)]
    [] type = "contract_upgrade" -> [type |-> String("ContractUpgrade"), wasmHash |-> String(x)]

ActionToScVal(action) ==
  LET type == action.type[2]
  IN CASE type = "RevokeCertificate" -> EnumScVal(type, <<StringScVal(action.docHash[2])>>)
       [] type = "UpdateThreshold"   -> EnumScVal(type, <<U32ScVal(action.value[2])>>)
       [] type = "ContractUpgrade"   -> EnumScVal(type, <<BytesN32ScVal(action.wasmHash[2])>>)

-----------------------------------------------------------------------------
(* fetchValue *)

NativeType ==
  [u64 |-> "bigint", u32 |-> "number", boolean |-> "boolean", string |-> "string",
   symbol |-> "string", address |-> "string", bytes |-> "buffer"]

\* scValToNative and safeValue descend as deep as a value nests.  The contract's nest
\* once: the elements of a vec are no vecs.
ScalarToNative(v) == <<NativeType[v[1]], v[2]>>

ScValToNative(v) ==
  IF v[1] = "vec" THEN List([i \in DOMAIN v[2] |-> ScalarToNative(v[2][i])])
  ELSE ScalarToNative(v)

SafeScalar(v) == IF v[1] \in {"bigint", "buffer"} THEN String(v[2]) ELSE v

SafeValue(v) ==
  IF v[1] = "array" THEN List([i \in DOMAIN v[2] |-> SafeScalar(v[2][i])])
  ELSE SafeScalar(v)

FetchValue(struct) == [field \in DOMAIN struct |-> SafeValue(ScValToNative(struct[field]))]

-----------------------------------------------------------------------------
(* Decoders. *)

\* Mutant: a decimal string is passed on.
ToNumNot(x) == x

ToNum(x) == IF x[1] = "null" THEN x ELSE Number(x[2])

DecodeContractEnum(v) ==
  CASE v[1] = "null"                  -> Null
    [] v[1] = "array" /\ v[2] = <<>>  -> Null
    [] v[1] = "array" /\ v[2] # <<>>  -> String(Head(v[2])[2])
    [] OTHER                          -> String(v[2])

\* An action that is decoded already is left alone.
DecodeProposalAction(v) ==
  LET elements == IF v[1] = "array" THEN v[2] ELSE <<v>>
      type     == Head(elements)[2]
      payload  == IF Len(elements) = 1 THEN Null ELSE elements[2]
      text     == IF payload = Null THEN Null ELSE String(payload[2])
  IN IF v[1] \in {"null", "object"} THEN v
     ELSE CASE type = "RevokeCertificate" -> Object([type |-> String(type), docHash |-> text])
            [] type = "UpdateThreshold" -> Object([type |-> String(type), value |-> ToNum(payload)])
            [] type = "ContractUpgrade" -> Object([type |-> String(type), wasmHash |-> text])
            [] OTHER -> Object([type |-> String(type), payload |-> List(Tail(elements))])

DecodeDocument(d) ==
  [d EXCEPT !.timestamp = ToNum(@), !.status = DecodeContractEnum(@), !.expiry = ToNum(@)]

DecodeVerifiedDocument(v) ==
  [v EXCEPT !.timestamp = ToNum(@), !.certificate_status = DecodeContractEnum(@),
            !.expiry = ToNum(@)]

DecodeReview(r) ==
  [r EXCEPT !.status = DecodeContractEnum(@), !.score = ToNum(@), !.timestamp = ToNum(@)]

DecodeProposal(p) ==
  [p EXCEPT !.id = ToNum(@), !.action = DecodeProposalAction(@)]

-----------------------------------------------------------------------------
(* The contract's structs, with what the stub returns for each. *)

ContractDocument(hash, status, expiry, time) ==
  [hash |-> StringScVal(hash), timestamp |-> U64ScVal(time),
   status |-> EnumScVal(status, <<>>), expiry |-> U64ScVal(expiry)]
StubDocument(hash, status, expiry, time) ==
  [hash |-> String(hash), timestamp |-> Number(time),
   status |-> String(status), expiry |-> Number(expiry)]

ContractVerified(hash, status, expiry, time) ==
  [hash |-> StringScVal(hash), timestamp |-> U64ScVal(time),
   verified_document |-> Flag(status = "Issued"),
   certificate_status |-> EnumScVal(status, <<>>), expiry |-> U64ScVal(expiry)]
StubVerified(hash, status, expiry, time) ==
  [hash |-> String(hash), timestamp |-> Number(time),
   verified_document |-> Flag(status = "Issued"),
   certificate_status |-> String(status), expiry |-> Number(expiry)]

ContractReview(by, status, score, time) ==
  [reviewer |-> AddressScVal(by), status |-> EnumScVal(status, <<>>),
   score |-> U32ScVal(score), timestamp |-> U64ScVal(time)]
StubReview(by, status, score, time) ==
  [reviewer |-> String(by), status |-> String(status), score |-> Number(score),
   timestamp |-> Number(time)]

ContractProposal(id, action, approvals, executed) ==
  [id |-> U64ScVal(id), action |-> ActionToScVal(action),
   approvals |-> <<"vec", [i \in DOMAIN approvals |-> AddressScVal(approvals[i])]>>,
   executed |-> Flag(executed)]
StubProposal(id, action, approvals, executed) ==
  [id |-> Number(id), action |-> Object(action),
   approvals |-> List([i \in DOMAIN approvals |-> String(approvals[i])]),
   executed |-> Flag(executed)]
=============================================================================
