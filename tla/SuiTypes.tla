------------------------------ MODULE SuiTypes ------------------------------
(***************************************************************************)
(* The types of Sui's transactions as the generated code writes and reads  *)
(* them: one definition for each type of the file that SenderSignedData    *)
(* and IntentMessage contain, and one for each of its helpers, under the   *)
(* file's names. A struct is the sequence of what its Serialize writes,    *)
(* which is the order its load reads. A variant carries the index that its *)
(* Serialize writes; the place of a variant in an enum is the case under   *)
(* which the enum's Deserialize loads it.                                  *)
(***************************************************************************)
EXTENDS SuiBytes

\* What serde's runtime writes: an integer of so many bytes, a boolean, bytes
\* and strings behind their length.
IntOf(width) == [kind |-> "int", width |-> width]
Vector(shape) == [kind |-> "seq", of |-> shape]
Bool  == [kind |-> "bool"]
U8    == IntOf(1)
U16   == IntOf(2)
U64   == IntOf(U64Bytes)
Bytes == Vector(U8)
Str   == Vector(U8)

\* What the generated code makes of them. Structs and variants are containers,
\* whose nesting is limited; sequences, tuples, arrays and options are not.
Struct(fields)  == [kind |-> "struct", fields |-> fields]
Tuple(fields) == [kind |-> "tuple", fields |-> fields]
Array(n, shape) == Tuple([i \in 1..n |-> shape])
Option(shape) == [kind |-> "option", of |-> shape]
Map(key, val) == [kind |-> "map", of |-> Tuple(<<key, val>>)]
Variant(name, index, fields) ==
  [kind |-> "variant", name |-> name, index |-> index, fields |-> fields]
Enum(variants)  == [kind |-> "enum", variants |-> variants]
Named(name)     == [kind |-> "named", name |-> name]
-----------------------------------------------------------------------------
(* Addresses, objects and coins *)

array32_u8_array == Array(AddressBytes, U8)
AccountAddress == Struct(<<array32_u8_array>>)
SuiAddress == Struct(<<array32_u8_array>>)
ObjectID == Struct(<<AccountAddress>>)
SequenceNumber == Struct(<<U64>>)
Digest == Struct(<<Bytes>>)
ObjectDigest == Struct(<<Digest>>)
Identifier == Struct(<<Str>>)
vector_u8 == Vector(U8)
vector_vector_u8 == Vector(vector_u8)
vector_ObjectID == Vector(ObjectID)
tuple3_ObjectID_SequenceNumber_ObjectDigest ==
  Tuple(<<ObjectID, SequenceNumber, ObjectDigest>>)
vector_tuple3_ObjectID_SequenceNumber_ObjectDigest ==
  Vector(tuple3_ObjectID_SequenceNumber_ObjectDigest)
ObjectArg__ImmOrOwnedObject ==
  Variant("ObjectArg__ImmOrOwnedObject", 0,
          <<tuple3_ObjectID_SequenceNumber_ObjectDigest>>)
ObjectArg__SharedObject ==
  Variant("ObjectArg__SharedObject", 1, <<ObjectID, SequenceNumber, Bool>>)
ObjectArg == Enum(<<ObjectArg__ImmOrOwnedObject, ObjectArg__SharedObject>>)
-----------------------------------------------------------------------------
(* Move types, which contain each other *)

TypeTag__Bool == Variant("TypeTag__Bool", 0, <<>>)
TypeTag__U8 == Variant("TypeTag__U8", 1, <<>>)
TypeTag__U64 == Variant("TypeTag__U64", 2, <<>>)
TypeTag__U128 == Variant("TypeTag__U128", 3, <<>>)
TypeTag__Address == Variant("TypeTag__Address", 4, <<>>)
TypeTag__Signer == Variant("TypeTag__Signer", 5, <<>>)
TypeTag__Vector == Variant("TypeTag__Vector", 6, <<Named("TypeTag")>>)
vector_TypeTag == Vector(Named("TypeTag"))

\* Address, Module, Name, TypeArgs.
StructTag == Struct(<<AccountAddress, Identifier, Identifier, vector_TypeTag>>)
TypeTag__Struct == Variant("TypeTag__Struct", 7, <<StructTag>>)
TypeTag__U16 == Variant("TypeTag__U16", 8, <<>>)
TypeTag__U32 == Variant("TypeTag__U32", 9, <<>>)
TypeTag__U256 == Variant("TypeTag__U256", 10, <<>>)
TypeTag ==
  Enum(<<TypeTag__Bool, TypeTag__U8, TypeTag__U64, TypeTag__U128,
         TypeTag__Address, TypeTag__Signer, TypeTag__Vector, TypeTag__Struct,
         TypeTag__U16, TypeTag__U32, TypeTag__U256>>)
option_TypeTag == Option(TypeTag)
-----------------------------------------------------------------------------
(* Programmable transactions *)

CallArg__Pure == Variant("CallArg__Pure", 0, <<vector_u8>>)
CallArg__Object == Variant("CallArg__Object", 1, <<ObjectArg>>)
CallArg == Enum(<<CallArg__Pure, CallArg__Object>>)
vector_CallArg == Vector(CallArg)
Argument__GasCoin == Variant("Argument__GasCoin", 0, <<>>)
Argument__Input == Variant("Argument__Input", 1, <<U16>>)
\* Mutant: written under the index of another variant.
Argument__ResultAsInput == Variant("Argument__Result", 1, <<U16>>)

Argument__Result == Variant("Argument__Result", 2, <<U16>>)
Argument__NestedResult == Variant("Argument__NestedResult", 3, <<U16, U16>>)
Argument ==
  Enum(<<Argument__GasCoin, Argument__Input, Argument__Result,
         Argument__NestedResult>>)
vector_Argument == Vector(Argument)

\* Package, Module, Function, TypeArguments, Arguments.
ProgrammableMoveCall ==
  Struct(<<ObjectID, Identifier, Identifier, vector_TypeTag,
           vector_Argument>>)
Command__MoveCall == Variant("Command__MoveCall", 0, <<ProgrammableMoveCall>>)
Command__TransferObjects ==
  Variant("Command__TransferObjects", 1, <<vector_Argument, Argument>>)
Command__SplitCoins ==
  Variant("Command__SplitCoins", 2, <<Argument, vector_Argument>>)
Command__MergeCoins ==
  Variant("Command__MergeCoins", 3, <<Argument, vector_Argument>>)
Command__Publish ==
  Variant("Command__Publish", 4, <<vector_vector_u8, vector_ObjectID>>)
Command__MakeMoveVec ==
  Variant("Command__MakeMoveVec", 5, <<option_TypeTag, vector_Argument>>)
Command__Upgrade ==
  Variant("Command__Upgrade", 6, <<vector_vector_u8, vector_ObjectID,
                                   ObjectID, Argument>>)
Command ==
  Enum(<<Command__MoveCall, Command__TransferObjects, Command__SplitCoins,
         Command__MergeCoins, Command__Publish, Command__MakeMoveVec,
         Command__Upgrade>>)
vector_Command == Vector(Command)
ProgrammableTransaction == Struct(<<vector_CallArg, vector_Command>>)
-----------------------------------------------------------------------------
(* The transactions validators make *)

ProtocolVersion == Struct(<<U64>>)
tuple3_SequenceNumber_vector_vector_u8_vector_ObjectID ==
  Tuple(<<SequenceNumber, vector_vector_u8, vector_ObjectID>>)
vector_tuple3_SequenceNumber_vector_vector_u8_vector_ObjectID ==
  Vector(tuple3_SequenceNumber_vector_vector_u8_vector_ObjectID)

\* Epoch, ProtocolVersion, StorageCharge, ComputationCharge, StorageRebate,
\* NonRefundableStorageFee, EpochStartTimestampMs, SystemPackages.
ChangeEpoch ==
  Struct(<<U64, ProtocolVersion, U64, U64, U64, U64, U64,
           vector_tuple3_SequenceNumber_vector_vector_u8_vector_ObjectID>>)

\* Epoch, Round, CommitTimestampMs.
ConsensusCommitPrologue == Struct(<<U64, U64, U64>>)
MoveObjectType___Other == Variant("MoveObjectType___Other", 0, <<StructTag>>)
MoveObjectType___GasCoin == Variant("MoveObjectType___GasCoin", 1, <<>>)
MoveObjectType___StakedSui == Variant("MoveObjectType___StakedSui", 2, <<>>)
MoveObjectType___Coin == Variant("MoveObjectType___Coin", 3, <<TypeTag>>)
MoveObjectType_ ==
  Enum(<<MoveObjectType___Other, MoveObjectType___GasCoin,
         MoveObjectType___StakedSui, MoveObjectType___Coin>>)
MoveObjectType == Struct(<<MoveObjectType_>>)

\* Type, HasPublicTransfer, Version, Contents.
MoveObject == Struct(<<MoveObjectType, Bool, SequenceNumber, Bytes>>)
Data__Move == Variant("Data__Move", 0, <<MoveObject>>)

\* UpgradedId, UpgradedVersion.
UpgradeInfo == Struct(<<ObjectID, SequenceNumber>>)
map_ObjectID_to_UpgradeInfo == Map(ObjectID, UpgradeInfo)
map_str_to_bytes == Map(Str, Bytes)

\* ModuleName, StructName, Package.
TypeOrigin == Struct(<<Str, Str, ObjectID>>)
vector_TypeOrigin == Vector(TypeOrigin)

\* Id, Version, ModuleMap, TypeOriginTable, LinkageTable.
MovePackage ==
  Struct(<<ObjectID, SequenceNumber, map_str_to_bytes, vector_TypeOrigin,
           map_ObjectID_to_UpgradeInfo>>)
Data__Package == Variant("Data__Package", 1, <<MovePackage>>)
Data == Enum(<<Data__Move, Data__Package>>)
Owner__AddressOwner == Variant("Owner__AddressOwner", 0, <<SuiAddress>>)
Owner__ObjectOwner == Variant("Owner__ObjectOwner", 1, <<SuiAddress>>)
Owner__Shared == Variant("Owner__Shared", 2, <<SequenceNumber>>)
Owner__Immutable == Variant("Owner__Immutable", 3, <<>>)
Owner ==
  Enum(<<Owner__AddressOwner, Owner__ObjectOwner, Owner__Shared,
         Owner__Immutable>>)
GenesisObject__RawObject ==
  Variant("GenesisObject__RawObject", 0, <<Data, Owner>>)
GenesisObject == Enum(<<GenesisObject__RawObject>>)
vector_GenesisObject == Vector(GenesisObject)
GenesisTransaction == Struct(<<vector_GenesisObject>>)
-----------------------------------------------------------------------------
(* Transactions, and how they are signed *)

TransactionKind__ProgrammableTransaction ==
  Variant("TransactionKind__ProgrammableTransaction", 0,
          <<ProgrammableTransaction>>)
TransactionKind__ChangeEpoch ==
  Variant("TransactionKind__ChangeEpoch", 1, <<ChangeEpoch>>)
TransactionKind__Genesis ==
  Variant("TransactionKind__Genesis", 2, <<GenesisTransaction>>)
TransactionKind__ConsensusCommitPrologue ==
  Variant("TransactionKind__ConsensusCommitPrologue", 3,
          <<ConsensusCommitPrologue>>)
TransactionKind ==
  Enum(<<TransactionKind__ProgrammableTransaction,
         TransactionKind__ChangeEpoch, TransactionKind__Genesis,
         TransactionKind__ConsensusCommitPrologue>>)

\* Payment, Owner, Price, Budget.
GasData ==
  Struct(<<vector_tuple3_ObjectID_SequenceNumber_ObjectDigest, SuiAddress,
           U64, U64>>)
TransactionExpiration__None == Variant("TransactionExpiration__None", 0, <<>>)
TransactionExpiration__Epoch ==
  Variant("TransactionExpiration__Epoch", 1, <<U64>>)
TransactionExpiration ==
  Enum(<<TransactionExpiration__None, TransactionExpiration__Epoch>>)

\* Kind, Sender, GasData, Expiration.
TransactionDataV1 ==
  Struct(<<TransactionKind, SuiAddress, GasData, TransactionExpiration>>)
TransactionData__V1 == Variant("TransactionData__V1", 0, <<TransactionDataV1>>)
TransactionData == Enum(<<TransactionData__V1>>)

\* Scope, Version, AppId.
Intent == Struct(<<U8, U8, U8>>)
IntentMessage == Struct(<<Intent, TransactionData>>)
GenericSignature == Struct(<<vector_u8>>)
vector_GenericSignature == Vector(GenericSignature)
SenderSignedTransaction == Struct(<<IntentMessage, vector_GenericSignature>>)
vector_SenderSignedTransaction == Vector(SenderSignedTransaction)
SenderSignedData == Struct(<<vector_SenderSignedTransaction>>)
=============================================================================
