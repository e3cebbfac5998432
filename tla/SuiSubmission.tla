---------------------------- MODULE SuiSubmission ----------------------------
(***************************************************************************)
(* SuiTransfer with the encoding that the generated code gives its         *)
(* transactions (SuiBcs).                                                  *)
(***************************************************************************)
EXTENDS SuiTransfer, SuiBcs

EncodeTransaction(d) == Write(TransactionData, d)
DecodeTransaction(bytes) == BcsDeserialize(TransactionData, bytes)
EncodeIntentMessage(d) == Write(IntentMessage, << <<0, 0, 0>>, d >>)

\* What is written is read as it was written: every variant of every type that
\* a transaction can be made of, and every transaction that is built. The
\* bytes that are signed, which tx.go:137 puts together by hand from three zeros
\* and the transaction, are those of the generated IntentMessage.
ReadsAsWritten ==
  /\ SamplesReadAsWritten
  /\ ReadsAsBuilt
  /\ Built =>
       BcsDeserialize(IntentMessage, Sighashes(tx)) = { << <<0, 0, 0>>, tx.data >> }
=============================================================================
