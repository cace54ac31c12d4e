------------------------------ MODULE Records ------------------------------
(***************************************************************************)
(* The signed records that travel between nodes: ProviderSummary of the    *)
(* rendezvous crate, CoordinatorAdvert of the coordinator crate, and       *)
(* MessageHeader and PresenceRecord of the types crate.  A record is built *)
(* by its owner, signed over a helper struct of its own, written to the    *)
(* wire, read by a receiver and possibly written again for the next hop;   *)
(* each hop verifies the signature over what it decoded.  The wire form    *)
(* and the signed form are two serializations with their own omissions, so *)
(* a field can be on one and not on the other.                             *)
(*                                                                         *)
(* A record is a function from its field names to values; None stands for  *)
(* Option::None and for an empty vector.  Owners may run the release       *)
(* before a field was added ("older"): they neither write nor sign it.     *)
(***************************************************************************)
EXTENDS Naturals, FiniteSets

CONSTANTS Kinds,        \* the kinds of record in this instance
          SummaryForms, \* which of SummaryData's two options are set
          Hops,         \* bound: how many receivers in a row
          MaxSets       \* bound: changes the owner makes to its record

VARIABLES kind,     \* the kind of the one record of this behaviour
          release,  \* the release its owner runs
          rec,      \* the owner's record
          sig,      \* rec.sig: the bytes last signed, or Unsigned
          asSigned, \* ghost: the whole record at the moment of signing
          sent,     \* ghost: the record and signature last handed to the wire
          copies,   \* hop |-> what that receiver decoded
          sets      \* changes made so far

vars == <<kind, release, rec, sig, asSigned, sent, copies, sets>>

None == "none"
Unsigned == [unsigned |-> TRUE]
Nowhere == [nowhere |-> TRUE]
Refused == [refused |-> TRUE]

ValuesOf(f) == IF f = "summary" THEN SummaryForms ELSE {"x", "y"}

(* What the structs and their serde attributes say.  Fields of one role are  *)
(* kept as one.  empty: None or empty in a new record; newer: added by a     *)
(* later release; skipped: left off the wire when None; unsigned: left out   *)
(* of the signed bytes when None.                                            *)

SummaryForm ==
  [fields |-> {"target", "have_root", "manifest_ver", "summary", "exp", "extensions"},
   empty |-> {"manifest_ver", "summary", "extensions"},
   newer |-> {"extensions"},
   skipped |-> {"manifest_ver", "summary", "extensions"},
   unsigned |-> {"extensions"}]

\* transport_hints is an added field too, and always written and signed.
AdvertForm ==
  [fields |-> {"roles", "addr_hints", "not_after", "score", "transport_hints"},
   empty |-> {"transport_hints"}, newer |-> {"transport_hints"},
   skipped |-> {}, unsigned |-> {}]

\* payload_hash is written when version >= 2; seal_payload_hash, which sets
\* the version to 2, is the only code that sets the hash.  The header is
\* signed as it is written.
HeaderForm ==
  [fields |-> {"msg_id", "ttl", "payload_hash"},
   empty |-> {"payload_hash"}, newer |-> {"payload_hash"},
   skipped |-> {"payload_hash"}, unsigned |-> {"payload_hash"}]

PresenceForm ==
  [fields |-> {"presence_tag", "addr_hints", "expires", "seq", "four_words"},
   empty |-> {"four_words"}, newer |-> {}, skipped |-> {}, unsigned |-> {}]

Form(k) == CASE k = "summary" -> SummaryForm
             [] k = "advert" -> AdvertForm
             [] k = "header" -> HeaderForm
             [] k = "presence" -> PresenceForm

FieldsOf(k) == Form(k).fields

Known(k, v) == IF v = "older" THEN FieldsOf(k) \ Form(k).newer ELSE FieldsOf(k)

\* A serialization: the known fields except the omitted empty ones.
Serialized(r, fields, skipped) ==
  [f \in {g \in fields : ~(g \in skipped /\ r[g] = None)} |-> r[f]]

\* ProviderSummary::new, CoordinatorAdvert::new, MessageHeader::new and
\* PresenceRecord::new.
Created(k) == [f \in FieldsOf(k) |-> IF f \in Form(k).empty THEN None ELSE "x"]

\* Mutant: the signed helper leaves the newer option out.
SummarySignableForgetting(v, r) ==
  Serialized(r, FieldsOf("summary") \ SummaryForm.newer, SummaryForm.unsigned)

\* Mutant: the signed helper writes every empty option.
SummarySignableUnskipped(v, r) == Serialized(r, Known("summary", v), {})

\* ProviderSummary's SignableFields, as sign and verify build it.
SummarySignable(v, r) == Serialized(r, Known("summary", v), SummaryForm.unsigned)

\* CoordinatorAdvert's SignableFields, as sign and verify build it.
AdvertSignable(v, r) == Serialized(r, Known("advert", v), AdvertForm.unsigned)

\* MessageHeader's Serialize: a tuple of six fields, or seven.
HeaderWritten(v, r) == Serialized(r, Known("header", v), HeaderForm.skipped)

\* PresenceRecord::signable_bytes.
PresenceSignable(v, r) == Serialized(r, Known("presence", v), PresenceForm.unsigned)

Signable(k, v, r) == CASE k = "summary" -> SummarySignable(v, r)
                       [] k = "advert" -> AdvertSignable(v, r)
                       [] k = "header" -> HeaderWritten(v, r)
                       [] k = "presence" -> PresenceSignable(v, r)

\* to_cbor, and the derived or written Serialize.
Encode(k, v, r) == Serialized(r, Known(k, v), Form(k).skipped)

Filled(k, w) == [f \in FieldsOf(k) |-> IF f \in DOMAIN w THEN w[f] ELSE None]

\* A SummaryData written with one of its options unset lacks that field.
HalfSummary == {"bloom", "iblt", "neither"}

\* Mutant: extensions has its own deserializer and no #[serde(default)].
SummaryReadableNarrow(w) ==
  /\ (FieldsOf("summary") \ DOMAIN w) \subseteq {"manifest_ver", "summary"}
  /\ ~("summary" \in DOMAIN w /\ w["summary"] \in HalfSummary)

\* ProviderSummary::from_cbor.  Options without a deserializer of their own,
\* and extensions by #[serde(default)], may be missing.  SummaryData's two
\* options have a deserializer of their own and no default: a missing one is
\* an error.
SummaryReadable(w) ==
  /\ (FieldsOf("summary") \ DOMAIN w) \subseteq {"manifest_ver", "summary", "extensions"}
  /\ ~("summary" \in DOMAIN w /\ w["summary"] \in HalfSummary)

\* CoordinatorAdvert::from_cbor: #[serde(default)] on transport_hints.
AdvertReadable(w) == (FieldsOf("advert") \ DOMAIN w) \subseteq {"transport_hints"}

\* MessageHeader's Deserialize: the hash is read only for version >= 2.
HeaderReadable(w) == (FieldsOf("header") \ DOMAIN w) \subseteq {"payload_hash"}

Readable(k, w) == CASE k = "summary" -> SummaryReadable(w)
                    [] k = "advert" -> AdvertReadable(w)
                    [] k = "header" -> HeaderReadable(w)
                    [] k = "presence" -> FieldsOf(k) = DOMAIN w

Decode(k, w, s) == IF Readable(k, w) THEN [rec |-> Filled(k, w), sig |-> s] ELSE Refused

\* verify: the signature is over what this release would sign.
Verify(c) == c.sig = Signable(kind, "current", c.rec)

Arrived(h) == copies[h] # Nowhere /\ copies[h] # Refused

TypeOK ==
  /\ kind \in Kinds
  /\ release \in {"current", "older"}
  /\ DOMAIN rec = FieldsOf(kind)
  /\ \A f \in FieldsOf(kind) : rec[f] \in ValuesOf(f) \union {None, "x"}
  /\ sets \in 0..MaxSets
  /\ \A h \in 1..Hops :
       copies[h] \in {Nowhere, Refused} \/ DOMAIN copies[h].rec = FieldsOf(kind)

Init ==
  /\ kind \in Kinds
  /\ release \in {"current", "older"}
  /\ rec = Created(kind)
  /\ sig = Unsigned /\ asSigned = Nowhere /\ sent = Nowhere
  /\ copies = [h \in 1..Hops |-> Nowhere]
  /\ sets = 0

Set(f, v) ==
  /\ sets < MaxSets
  /\ f \in Known(kind, release) /\ v # rec[f]
  /\ rec' = [rec EXCEPT ![f] = v]
  /\ sets' = sets + 1
  /\ UNCHANGED <<kind, release, sig, asSigned, sent, copies>>

\* with_root, with_manifest_version, with_summary, with_extensions, and
\* assignments to public fields: at any time, before signing or after.
SetSummary == kind = "summary" /\ \E f \in FieldsOf(kind) : \E v \in ValuesOf(f) : Set(f, v)

\* with_transport_hints, add_transport_hint, and public fields.
SetAdvert == kind = "advert" /\ \E f \in FieldsOf(kind) : \E v \in ValuesOf(f) : Set(f, v)

\* seal_payload_hash, the id computed for the message, and public fields.
SetHeader == kind = "header" /\ \E f \in FieldsOf(kind) : \E v \in ValuesOf(f) : Set(f, v)

\* with_four_words, new_with_seq, and public fields.
SetPresence == kind = "presence" /\ \E f \in FieldsOf(kind) : \E v \in ValuesOf(f) : Set(f, v)

Sign ==
  /\ sig' = Signable(kind, release, rec)
  /\ asSigned' = rec
  /\ UNCHANGED <<kind, release, rec, sent, copies, sets>>

\* The owner hands the record to the wire; the first receiver reads it.
Send ==
  /\ sent' = [rec |-> rec, sig |-> sig]
  /\ copies' = [copies EXCEPT ![1] = Decode(kind, Encode(kind, release, rec), sig)]
  /\ UNCHANGED <<kind, release, rec, sig, asSigned, sets>>

\* A receiver writes the record it decoded for the next one.
Forward(h) ==
  /\ h < Hops /\ Arrived(h)
  /\ copies' = [copies EXCEPT
       ![h + 1] = Decode(kind, Encode(kind, "current", copies[h].rec), copies[h].sig)]
  /\ UNCHANGED <<kind, release, rec, sig, asSigned, sent, sets>>

Next ==
  \/ SetSummary \/ SetAdvert \/ SetHeader \/ SetPresence
  \/ Sign
  \/ Send
  \/ \E h \in 1..Hops : Forward(h)

Spec == Init /\ [][Next]_vars

-----------------------------------------------------------------------------
(* Properties *)

\* A copy that verifies, at any hop, is in every field the record its owner
\* signed: nothing changed after sign(), added in a later release or dropped
\* on the way is covered by a signature that does not speak of it.
VerifiesAsSigned ==
  \A h \in 1..Hops :
    Arrived(h) /\ copies[h].sig # Unsigned /\ Verify(copies[h]) /\ copies[h].sig = sig
      => copies[h].rec = asSigned

\* A record sent with a signature that covers it verifies at every hop it
\* reaches, also when its owner runs the release without the newer field.
\* Adverts of the older release are excepted: transport_hints is signed even
\* when empty.
SignatureTravels ==
  \A h \in 1..Hops :
    /\ Arrived(h) /\ ~(kind = "advert" /\ release = "older")
    /\ asSigned # Nowhere /\ copies[h].rec = asSigned /\ copies[h].sig = sig
    => Verify(copies[h])

\* What the owner encodes, the first receiver decodes: no encoder produces a
\* record its own decoder refuses, and no field changes on the way.
ArrivesWhole ==
  sent # Nowhere => copies[1] = sent

=============================================================================
