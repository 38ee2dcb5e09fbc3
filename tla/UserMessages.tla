----------------------------- MODULE UserMessages -----------------------------
(***************************************************************************)
(* The messages of the UserService as protoc generated them                *)
(* (src/generated/user/v1/user.pb.{h,cc}): two messages of one type that   *)
(* are edited, cleared, merged, copied, swapped, sent and parsed.          *)
(*                                                                         *)
(* A message has its fields, a has-bit for each of them and the fields it  *)
(* does not know.  The fields have no presence of their own (proto3), so   *)
(* the bits are hints: the methods skip a field whose bit is not set, and  *)
(* trust that it has its default.  A string starts as the one empty string *)
(* that all messages share, and gets storage of its own when it is set.    *)
(*                                                                         *)
(* The wire is the sequence of fields; texts are members of a set with     *)
(* their lengths.  The protobuf library is external.  Arenas, weak fields  *)
(* and the checks of hardened debug builds are left out.                   *)
(***************************************************************************)
EXTENDS Integers, SequencesExt

CONSTANTS
  Texts, Empty,     \* values of string fields, with the empty one
  Length,           \* Length[t]: bytes of text t
  Ints,             \* values that int fields are set to
  Bits32, Bits64,   \* bound: widths of int32 and int64
  NULL,             \* null pointer
  Samples,          \* bound: the users inside of messages, by their fields
  MaxEdited,        \* bound: fields of a message that are edited
  MaxUnknown,       \* bound: unknown fields that a message collects
  MaxUsers          \* bound: users in a list

ASSUME MessagesAssumption ==
  /\ Empty \in Texts /\ Length \in [Texts -> Nat]
  /\ Bits32 \in Nat \ {0} /\ Bits64 \in Nat /\ Bits32 <= Bits64
  /\ Ints \subseteq -2^(Bits64 - 1)..2^(Bits64 - 1) - 1
  /\ Samples \subseteq [id : Texts, name : Texts, email : Texts, created_at : Ints]

\* What is true of the powers, for the proofs.
ASSUME PowersAssumption ==
  /\ \A n \in {Bits32, Bits64} : 2^(n - 1) \in Nat \ {0} /\ 2^n = 2 * 2^(n - 1)
  /\ 2^(Bits32 - 1) <= 2^(Bits64 - 1) /\ 2^Bits64 % 2^Bits32 = 0

VARIABLES
  kind,      \* type of the two messages
  edited,    \* the fields that are edited
  a, b       \* the messages

messageVars == <<kind, edited, a, b>>

Message(val) == [bits |-> {}, val |-> val, unknown |-> <<>>]
Has(m, bit) == bit \in m.bits

-----------------------------------------------------------------------------
(* Values of a field                                                       *)

\* ArenaStringPtr: `own' is false for the shared empty string.
SharedEmpty == [text |-> Empty, own |-> FALSE]
Text(t) == [text |-> t, own |-> TRUE]

\* ClearNonDefaultToEmpty() of a string, when its bit is set.
TextCleared(m, bit, v) == IF Has(m, bit) THEN [v EXCEPT !.text = Empty] ELSE v

\* Mutant of TextMerged: an empty string is not merged at all.
TextMergedIfFull(v, from, bit, w) ==
  IF Has(from, bit) /\ w.text # Empty THEN Text(w.text) ELSE v

\* Merge a string: an empty one changes nothing, but makes the storage that
\* the bit stands for.
TextMerged(v, from, bit, w) ==
  IF ~Has(from, bit) THEN v
  ELSE IF w.text # Empty THEN Text(w.text)
  ELSE IF v.own THEN v ELSE Text(Empty)

IntMerged(v, from, bit, w) == IF Has(from, bit) /\ w # 0 THEN w ELSE v

-----------------------------------------------------------------------------
(* The wire                                                                *)

\* The values of an int field of this width.
IntsOf(bits) == -2^(bits - 1)..2^(bits - 1) - 1

Entry(num, form, v) == <<num, form, v>>
Num(e) == e[1]
Form(e) == e[2]
Val(e) == e[3]

\* WireFormatLite: an int goes on the wire as an unsigned 64-bit varint,
\* negative int32 too, and is cut to the width of its field when it is read.
ToWire(n) == n % 2^Bits64
FromWire(u, bits) ==
  LET v == u % 2^bits IN IF v >= 2^(bits - 1) THEN v - 2^bits ELSE v

\* Seven bits of a varint go into a byte; 64 bits take ten bytes at most.
VarintSize(u) ==
  CHOOSE k \in 1..10 : (k = 10 \/ u < 128^k) /\ \A j \in 1..k - 1 : ~(u < 128^j)
TagSize(num) == VarintSize(8 * num)
StringSize(t) == VarintSize(Length[t]) + Length[t]
MessageSize(n) == VarintSize(n) + n

PutText(m, bit, num, v) ==
  IF Has(m, bit) /\ v.text # Empty THEN <<Entry(num, "text", v.text)>> ELSE <<>>
PutInt(m, bit, num, v) ==
  IF Has(m, bit) /\ v # 0 THEN <<Entry(num, "varint", ToWire(v))>> ELSE <<>>

TextSize(m, bit, v) == IF Has(m, bit) /\ v.text # Empty THEN 1 + StringSize(v.text) ELSE 0
IntSize(m, bit, v) == IF Has(m, bit) /\ v # 0 THEN 1 + VarintSize(ToWire(v)) ELSE 0

\* The bytes that entries take: each has a tag with its number and form.
Total(sizes) == FoldLeft(LAMBDA n, k : n + k, 0, sizes)

FlatSize(e) ==
  TagSize(Num(e)) + (IF Form(e) = "text" THEN StringSize(Val(e)) ELSE VarintSize(Val(e)))
FlatBytes(s) == Total([i \in DOMAIN s |-> FlatSize(s[i])])

EntrySize(e) ==
  IF Form(e) = "message" THEN TagSize(Num(e)) + MessageSize(FlatBytes(Val(e))) ELSE FlatSize(e)
Bytes(s) == Total([i \in DOMAIN s |-> EntrySize(s[i])])

\* A message keeps its unknown fields as the bytes that it has read.
UnknownSize(m) == Bytes(m.unknown)

-----------------------------------------------------------------------------
(* User                                                                    *)

TextValues == [text : Texts, own : BOOLEAN]
FlatEntries == (Nat \X {"text"} \X Texts) \cup (Nat \X {"varint"} \X Int)
Users == [bits : SUBSET Nat,
          val : [id : TextValues, name : TextValues, email : TextValues, created_at : Int],
          unknown : Seq(FlatEntries)]

ASSUME NullAssumption == NULL \notin Users

NewUser ==
  Message([id |-> SharedEmpty, name |-> SharedEmpty, email |-> SharedEmpty, created_at |-> 0])

ClearUser(m) ==
  Message([id |-> TextCleared(m, 1, m.val.id), name |-> TextCleared(m, 2, m.val.name),
           email |-> TextCleared(m, 4, m.val.email), created_at |-> 0])

SerializeUser(m) ==
  PutText(m, 1, 1, m.val.id) \o PutText(m, 2, 2, m.val.name)
  \o PutText(m, 4, 3, m.val.email) \o PutInt(m, 8, 4, m.val.created_at) \o m.unknown

ByteSizeUser(m) ==
  TextSize(m, 1, m.val.id) + TextSize(m, 2, m.val.name) + TextSize(m, 4, m.val.email)
  + IntSize(m, 8, m.val.created_at) + UnknownSize(m)

\* Mutant of MergeUser: the bits are not taken over.
MergeUserWithoutBits(to, from) ==
  [bits |-> to.bits, unknown |-> to.unknown \o from.unknown,
   val |-> [id |-> TextMerged(to.val.id, from, 1, from.val.id),
            name |-> TextMerged(to.val.name, from, 2, from.val.name),
            email |-> TextMerged(to.val.email, from, 4, from.val.email),
            created_at |-> IntMerged(to.val.created_at, from, 8, from.val.created_at)]]

MergeUser(to, from) ==
  [bits |-> to.bits \cup from.bits, unknown |-> to.unknown \o from.unknown,
   val |-> [id |-> TextMerged(to.val.id, from, 1, from.val.id),
            name |-> TextMerged(to.val.name, from, 2, from.val.name),
            email |-> TextMerged(to.val.email, from, 4, from.val.email),
            created_at |-> IntMerged(to.val.created_at, from, 8, from.val.created_at)]]

-----------------------------------------------------------------------------
(* CreateUserRequest                                                       *)

NewCreateUserRequest == Message([name |-> SharedEmpty, email |-> SharedEmpty])

ClearCreateUserRequest(m) ==
  Message([name |-> TextCleared(m, 1, m.val.name), email |-> TextCleared(m, 2, m.val.email)])

SerializeCreateUserRequest(m) ==
  PutText(m, 1, 1, m.val.name) \o PutText(m, 2, 2, m.val.email) \o m.unknown

ByteSizeCreateUserRequest(m) ==
  TextSize(m, 1, m.val.name) + TextSize(m, 2, m.val.email) + UnknownSize(m)

MergeCreateUserRequest(to, from) ==
  [bits |-> to.bits \cup from.bits, unknown |-> to.unknown \o from.unknown,
   val |-> [name |-> TextMerged(to.val.name, from, 1, from.val.name),
            email |-> TextMerged(to.val.email, from, 2, from.val.email)]]

-----------------------------------------------------------------------------
(* CreateUserReply: a user, which its pointer may still hold, cleared, when *)
(* the bit says that there is none                                         *)

NewCreateUserReply == Message([user |-> NULL])

\* Mutant of ClearCreateUserReply: the user is not cleared with its bit.
ClearReplyKeepsUser(m) == Message([user |-> m.val.user])

ClearCreateUserReply(m) ==
  Message([user |-> IF Has(m, 1) THEN ClearUser(m.val.user) ELSE m.val.user])

SerializeCreateUserReply(m) ==
  (IF Has(m, 1) THEN <<Entry(1, "message", SerializeUser(m.val.user))>> ELSE <<>>)
  \o m.unknown

ByteSizeCreateUserReply(m) ==
  (IF Has(m, 1) THEN 1 + MessageSize(ByteSizeUser(m.val.user)) ELSE 0) + UnknownSize(m)

MergeCreateUserReply(to, from) ==
  [bits |-> to.bits \cup from.bits, unknown |-> to.unknown \o from.unknown,
   val |-> [user |-> IF ~Has(from, 1) THEN to.val.user
                     ELSE IF to.val.user = NULL THEN from.val.user
                     ELSE MergeUser(to.val.user, from.val.user)]]

\* The copy constructor takes no user without its bit.
CopyCreateUserReply(from) ==
  [from EXCEPT !.val = [user |-> IF Has(from, 1) THEN from.val.user ELSE NULL]]

-----------------------------------------------------------------------------
(* GetUserRequest                                                          *)

NewGetUserRequest == Message([id |-> SharedEmpty])
ClearGetUserRequest(m) == Message([id |-> TextCleared(m, 1, m.val.id)])
SerializeGetUserRequest(m) == PutText(m, 1, 1, m.val.id) \o m.unknown
ByteSizeGetUserRequest(m) == TextSize(m, 1, m.val.id) + UnknownSize(m)
MergeGetUserRequest(to, from) ==
  [bits |-> to.bits \cup from.bits, unknown |-> to.unknown \o from.unknown,
   val |-> [id |-> TextMerged(to.val.id, from, 1, from.val.id)]]

-----------------------------------------------------------------------------
(* GetUserReply                                                            *)

NewGetUserReply == Message([user |-> NULL])

ClearGetUserReply(m) ==
  Message([user |-> IF Has(m, 1) THEN ClearUser(m.val.user) ELSE m.val.user])

SerializeGetUserReply(m) ==
  (IF Has(m, 1) THEN <<Entry(1, "message", SerializeUser(m.val.user))>> ELSE <<>>)
  \o m.unknown

\* Mutant of ByteSizeGetUserReply: the size is counted by the pointer.
ByteSizeByPointer(m) ==
  (IF m.val.user # NULL THEN 1 + MessageSize(ByteSizeUser(m.val.user)) ELSE 0)
  + UnknownSize(m)

ByteSizeGetUserReply(m) ==
  (IF Has(m, 1) THEN 1 + MessageSize(ByteSizeUser(m.val.user)) ELSE 0) + UnknownSize(m)

MergeGetUserReply(to, from) ==
  [bits |-> to.bits \cup from.bits, unknown |-> to.unknown \o from.unknown,
   val |-> [user |-> IF ~Has(from, 1) THEN to.val.user
                     ELSE IF to.val.user = NULL THEN from.val.user
                     ELSE MergeUser(to.val.user, from.val.user)]]

CopyGetUserReply(from) ==
  [from EXCEPT !.val = [user |-> IF Has(from, 1) THEN from.val.user ELSE NULL]]

-----------------------------------------------------------------------------
(* ListUsersRequest: both ints are zeroed when one of the bits is set      *)

NewListUsersRequest == Message([limit |-> 0, offset |-> 0])

ClearListUsersRequest(m) ==
  Message(IF Has(m, 1) \/ Has(m, 2) THEN [limit |-> 0, offset |-> 0] ELSE m.val)

\* Mutant of SerializeListUsersRequest: offset goes by the bit of limit.
SerializeOffsetByLimit(m) ==
  PutInt(m, 1, 1, m.val.limit) \o PutInt(m, 1, 2, m.val.offset) \o m.unknown

SerializeListUsersRequest(m) ==
  PutInt(m, 1, 1, m.val.limit) \o PutInt(m, 2, 2, m.val.offset) \o m.unknown

ByteSizeListUsersRequest(m) ==
  IntSize(m, 1, m.val.limit) + IntSize(m, 2, m.val.offset) + UnknownSize(m)

MergeListUsersRequest(to, from) ==
  [bits |-> to.bits \cup from.bits, unknown |-> to.unknown \o from.unknown,
   val |-> [limit |-> IntMerged(to.val.limit, from, 1, from.val.limit),
            offset |-> IntMerged(to.val.offset, from, 2, from.val.offset)]]

-----------------------------------------------------------------------------
(* ListUsersReply: a list of users, which may be empty with its bit set    *)

NewListUsersReply == Message([users |-> <<>>, total |-> 0])

ClearListUsersReply(m) ==
  Message([users |-> IF Has(m, 1) THEN <<>> ELSE m.val.users, total |-> 0])

SerializeListUsersReply(m) ==
  (IF Has(m, 1) THEN [k \in 1..Len(m.val.users) |->
                        Entry(1, "message", SerializeUser(m.val.users[k]))] ELSE <<>>)
  \o PutInt(m, 2, 2, m.val.total) \o m.unknown

ByteSizeListUsersReply(m) ==
  (IF Has(m, 1) THEN Total([k \in DOMAIN m.val.users |->
                              1 + MessageSize(ByteSizeUser(m.val.users[k]))]) ELSE 0)
  + IntSize(m, 2, m.val.total) + UnknownSize(m)

MergeListUsersReply(to, from) ==
  [bits |-> to.bits \cup from.bits, unknown |-> to.unknown \o from.unknown,
   val |-> [users |-> IF Has(from, 1) THEN to.val.users \o from.val.users ELSE to.val.users,
            total |-> IntMerged(to.val.total, from, 2, from.val.total)]]

-----------------------------------------------------------------------------
(* GetStatsRequest has no field, GetStatsReply has two                     *)

NewGetStatsRequest == Message(<<>>)

NewGetStatsReply == Message([total_users |-> 0, request_count |-> 0])

ClearGetStatsReply(m) ==
  Message(IF Has(m, 1) \/ Has(m, 2) THEN [total_users |-> 0, request_count |-> 0] ELSE m.val)

SerializeGetStatsReply(m) ==
  PutInt(m, 1, 1, m.val.total_users) \o PutInt(m, 2, 2, m.val.request_count) \o m.unknown

ByteSizeGetStatsReply(m) ==
  IntSize(m, 1, m.val.total_users) + IntSize(m, 2, m.val.request_count) + UnknownSize(m)

MergeGetStatsReply(to, from) ==
  [bits |-> to.bits \cup from.bits, unknown |-> to.unknown \o from.unknown,
   val |-> [total_users |-> IntMerged(to.val.total_users, from, 1, from.val.total_users),
            request_count |-> IntMerged(to.val.request_count, from, 2, from.val.request_count)]]

-----------------------------------------------------------------------------
(* What the parser has in its tables: number, type and bit of each field   *)

Row(num, type, index, field) ==
  [num |-> num, type |-> type, bit |-> 2^index, field |-> field]

UserTable == {Row(1, "text", 0, "id"), Row(2, "text", 1, "name"), Row(3, "text", 2, "email"),
              Row(4, "int64", 3, "created_at")}
CreateUserRequestTable == {Row(1, "text", 0, "name"), Row(2, "text", 1, "email")}
CreateUserReplyTable == {Row(1, "user", 0, "user")}
GetUserRequestTable == {Row(1, "text", 0, "id")}
GetUserReplyTable == {Row(1, "user", 0, "user")}

ListUsersRequestTable == {Row(1, "int32", 0, "limit"), Row(2, "int32", 1, "offset")}
ListUsersReplyTable == {Row(1, "users", 0, "users"), Row(2, "int64", 1, "total")}
GetStatsRequestTable == {}
GetStatsReplyTable == {Row(1, "int64", 0, "total_users"), Row(2, "int64", 1, "request_count")}

FormOf(type) ==
  IF type = "text" THEN "text" ELSE IF type \in {"int32", "int64"} THEN "varint" ELSE "message"

\* Read entry e into a field; `parse' reads a user.
ReadInto(r, v, e, Parse(_, _)) ==
  CASE r.type = "text" -> Text(Val(e))
    [] r.type = "int32" -> FromWire(Val(e), Bits32)
    [] r.type = "int64" -> FromWire(Val(e), Bits64)
    [] r.type = "user" -> Parse(IF v = NULL THEN NewUser ELSE v, Val(e))
    [] r.type = "users" -> Append(v, Parse(NewUser, Val(e)))

\* Field f gets value v, and its bit is set or cleared.
SetField(m, bit, f, v) ==
  [bits |-> m.bits \cup {bit}, val |-> [m.val EXCEPT ![f] = v], unknown |-> m.unknown]
UnsetField(m, bit, f, v) ==
  [bits |-> m.bits \ {bit}, val |-> [m.val EXCEPT ![f] = v], unknown |-> m.unknown]

\* One entry of the wire: its field, or else the unknown fields.
ReadEntry(table, m, e, Parse(_, _)) ==
  LET rows == {r \in table : r.num = Num(e) /\ FormOf(r.type) = Form(e)}
  IN  IF rows = {} THEN [m EXCEPT !.unknown = Append(@, e)]
      ELSE LET r == CHOOSE r \in rows : TRUE
           IN  SetField(m, r.bit, r.field, ReadInto(r, m.val[r.field], e, Parse))

ReadUserEntry(m, e) == ReadEntry(UserTable, m, e, LAMBDA n, s : n)
ParseUser(m, s) == FoldLeft(ReadUserEntry, m, s)

-----------------------------------------------------------------------------
(* The methods of a message of type k                                      *)

Kinds == {"User", "CreateUserRequest", "CreateUserReply", "GetUserRequest", "GetUserReply",
          "ListUsersRequest", "ListUsersReply", "GetStatsRequest", "GetStatsReply"}

New(k) ==
  CASE k = "User" -> NewUser
    [] k = "CreateUserRequest" -> NewCreateUserRequest
    [] k = "CreateUserReply" -> NewCreateUserReply
    [] k = "GetUserRequest" -> NewGetUserRequest
    [] k = "GetUserReply" -> NewGetUserReply
    [] k = "ListUsersRequest" -> NewListUsersRequest
    [] k = "ListUsersReply" -> NewListUsersReply
    [] k = "GetStatsRequest" -> NewGetStatsRequest
    [] k = "GetStatsReply" -> NewGetStatsReply

Table(k) ==
  CASE k = "User" -> UserTable
    [] k = "CreateUserRequest" -> CreateUserRequestTable
    [] k = "CreateUserReply" -> CreateUserReplyTable
    [] k = "GetUserRequest" -> GetUserRequestTable
    [] k = "GetUserReply" -> GetUserReplyTable
    [] k = "ListUsersRequest" -> ListUsersRequestTable
    [] k = "ListUsersReply" -> ListUsersReplyTable
    [] k = "GetStatsRequest" -> GetStatsRequestTable
    [] k = "GetStatsReply" -> GetStatsReplyTable

\* GetStatsRequest has its methods from the library: ZeroFieldsBase.
Clear(k, m) ==
  CASE k = "User" -> ClearUser(m)
    [] k = "CreateUserRequest" -> ClearCreateUserRequest(m)
    [] k = "CreateUserReply" -> ClearCreateUserReply(m)
    [] k = "GetUserRequest" -> ClearGetUserRequest(m)
    [] k = "GetUserReply" -> ClearGetUserReply(m)
    [] k = "ListUsersRequest" -> ClearListUsersRequest(m)
    [] k = "ListUsersReply" -> ClearListUsersReply(m)
    [] k = "GetStatsRequest" -> NewGetStatsRequest
    [] k = "GetStatsReply" -> ClearGetStatsReply(m)

Serialize(k, m) ==
  CASE k = "User" -> SerializeUser(m)
    [] k = "CreateUserRequest" -> SerializeCreateUserRequest(m)
    [] k = "CreateUserReply" -> SerializeCreateUserReply(m)
    [] k = "GetUserRequest" -> SerializeGetUserRequest(m)
    [] k = "GetUserReply" -> SerializeGetUserReply(m)
    [] k = "ListUsersRequest" -> SerializeListUsersRequest(m)
    [] k = "ListUsersReply" -> SerializeListUsersReply(m)
    [] k = "GetStatsRequest" -> m.unknown
    [] k = "GetStatsReply" -> SerializeGetStatsReply(m)

ByteSize(k, m) ==
  CASE k = "User" -> ByteSizeUser(m)
    [] k = "CreateUserRequest" -> ByteSizeCreateUserRequest(m)
    [] k = "CreateUserReply" -> ByteSizeCreateUserReply(m)
    [] k = "GetUserRequest" -> ByteSizeGetUserRequest(m)
    [] k = "GetUserReply" -> ByteSizeGetUserReply(m)
    [] k = "ListUsersRequest" -> ByteSizeListUsersRequest(m)
    [] k = "ListUsersReply" -> ByteSizeListUsersReply(m)
    [] k = "GetStatsRequest" -> UnknownSize(m)
    [] k = "GetStatsReply" -> ByteSizeGetStatsReply(m)

Merge(k, to, from) ==
  CASE k = "User" -> MergeUser(to, from)
    [] k = "CreateUserRequest" -> MergeCreateUserRequest(to, from)
    [] k = "CreateUserReply" -> MergeCreateUserReply(to, from)
    [] k = "GetUserRequest" -> MergeGetUserRequest(to, from)
    [] k = "GetUserReply" -> MergeGetUserReply(to, from)
    [] k = "ListUsersRequest" -> MergeListUsersRequest(to, from)
    [] k = "ListUsersReply" -> MergeListUsersReply(to, from)
    [] k = "GetStatsRequest" -> [to EXCEPT !.unknown = @ \o from.unknown]
    [] k = "GetStatsReply" -> MergeGetStatsReply(to, from)

\* The copy constructor; where it is not named, it takes everything over.
Copy(k, from) ==
  IF k = "CreateUserReply" THEN CopyCreateUserReply(from)
  ELSE IF k = "GetUserReply" THEN CopyGetUserReply(from)
  ELSE from

CopyFrom(k, to, from) == Merge(k, Clear(k, to), from)

Parse(k, m, s) == FoldLeft(LAMBDA n, e : ReadEntry(Table(k), n, e, ParseUser), m, s)

-----------------------------------------------------------------------------
(* The accessors of a field, and of each message                           *)

\* set, clear, mutable, release, set_allocated with a string or a null pointer.
TextEdits(m, bit, f) ==
  LET v == m.val[f]
  IN  {SetField(m, bit, f, Text(t)) : t \in Texts}
      \cup {UnsetField(m, bit, f, [v EXCEPT !.text = Empty]),
            SetField(m, bit, f, [v EXCEPT !.own = TRUE]),
            IF Has(m, bit) THEN UnsetField(m, bit, f, SharedEmpty) ELSE m,
            UnsetField(m, bit, f, SharedEmpty)}

\* set with an int of the field's width, and clear.
IntEdits(m, bit, f, bits) ==
  {SetField(m, bit, f, n) : n \in Ints \cap IntsOf(bits)} \cup {UnsetField(m, bit, f, 0)}

\* mutable, with a user assigned or merged into what is there, clear, release,
\* and set_allocated.
OneUserEdits(m, bit, f, users) ==
  LET v == m.val[f]
      there == IF v = NULL THEN NewUser ELSE v
  IN  {SetField(m, bit, f, there)}
      \cup {SetField(m, bit, f, MergeUser(ClearUser(there), u)) : u \in users}
      \cup {SetField(m, bit, f, MergeUser(there, u)) : u \in users}
      \cup {UnsetField(m, bit, f, IF v = NULL THEN NULL ELSE ClearUser(v)),
            UnsetField(m, bit, f, NULL)}
      \cup {SetField(m, bit, f, u) : u \in users}

\* add, with a user assigned, mutable of the list, and clear.
UserListEdits(m, bit, f, users) ==
  LET v == m.val[f]
  IN  {SetField(m, bit, f, Append(v, MergeUser(NewUser, u))) : u \in users}
      \cup {SetField(m, bit, f, v), UnsetField(m, bit, f, <<>>)}

\* All four fields of a user are set, as the server does for each reply.
FullUser(s) ==
  SetField(SetField(SetField(SetField(NewUser,
    1, "id", Text(s.id)), 2, "name", Text(s.name)), 4, "email", Text(s.email)),
    8, "created_at", s.created_at)

\* The users inside of a message: new, with an empty name, and full.
SampleUsers ==
  {NewUser, SetField(NewUser, 2, "name", Text(Empty))} \cup {FullUser(s) : s \in Samples}

EditUser(m, f) ==
  CASE f = "id" -> TextEdits(m, 1, "id")
    [] f = "name" -> TextEdits(m, 2, "name")
    [] f = "email" -> TextEdits(m, 4, "email")
    [] f = "created_at" -> IntEdits(m, 8, "created_at", Bits64)
EditCreateUserRequest(m, f) ==
  CASE f = "name" -> TextEdits(m, 1, "name")
    [] f = "email" -> TextEdits(m, 2, "email")
EditCreateUserReply(m) == OneUserEdits(m, 1, "user", SampleUsers)
EditGetUserRequest(m) == TextEdits(m, 1, "id")
EditGetUserReply(m) == OneUserEdits(m, 1, "user", SampleUsers)
EditListUsersRequest(m, f) ==
  CASE f = "limit" -> IntEdits(m, 1, "limit", Bits32)
    [] f = "offset" -> IntEdits(m, 2, "offset", Bits32)
EditListUsersReply(m, f) ==
  CASE f = "users" -> UserListEdits(m, 1, "users", SampleUsers)
    [] f = "total" -> IntEdits(m, 2, "total", Bits64)
EditGetStatsReply(m, f) ==
  CASE f = "total_users" -> IntEdits(m, 1, "total_users", Bits64)
    [] f = "request_count" -> IntEdits(m, 2, "request_count", Bits64)

Edits(k, m, f) ==
  CASE k = "User" -> EditUser(m, f)
    [] k = "CreateUserRequest" -> EditCreateUserRequest(m, f)
    [] k = "CreateUserReply" -> EditCreateUserReply(m)
    [] k = "GetUserRequest" -> EditGetUserRequest(m)
    [] k = "GetUserReply" -> EditGetUserReply(m)
    [] k = "ListUsersRequest" -> EditListUsersRequest(m, f)
    [] k = "ListUsersReply" -> EditListUsersReply(m, f)
    [] k = "GetStatsReply" -> EditGetStatsReply(m, f)

-----------------------------------------------------------------------------
(* Actions                                                                 *)

\* An int that a message of type k does not know: under number 1 where that is
\* a field of another form, else under a number of a later version.
UnknownEntry(k) ==
  Entry(IF \E r \in Table(k) : r.num = 1 /\ FormOf(r.type) = "varint" THEN 15 ELSE 1,
        "varint", ToWire(-1))

\* What another process may send.
Entries(k) ==
  {UnknownEntry(k)}
  \cup UNION {CASE r.type = "text" -> {Entry(r.num, "text", t) : t \in Texts}
                [] r.type \in {"int32", "int64"} -> {Entry(r.num, "varint", ToWire(n)) : n \in Ints}
                [] OTHER -> {Entry(r.num, "message", SerializeUser(u)) : u \in SampleUsers} :
              r \in {q \in Table(k) : q.field \in edited}}

Fields(k) == DOMAIN New(k).val

Small(m) ==
  /\ Len(m.unknown) <= MaxUnknown
  /\ kind = "ListUsersReply" => Len(m.val.users) <= MaxUsers

\* Two new messages, or a full user and a new one.  Some of the fields are
\* edited from then on: MaxEdited of them, or all.
MessagesInit ==
  /\ kind \in Kinds
  /\ edited \in {s \in SUBSET Fields(kind) :
                   /\ Cardinality(s) <= MaxEdited
                   /\ s = Fields(kind) \/ Cardinality(s) = MaxEdited}
  /\ a \in {New(kind)} \cup (IF kind = "User" THEN {FullUser(s) : s \in Samples} ELSE {})
  /\ b = New(kind)

\* An accessor of message a.
Edit ==
  /\ \E f \in edited : a' \in Edits(kind, a, f)
  /\ Small(a')
  /\ UNCHANGED <<kind, edited, b>>

ClearMessage ==
  /\ a' = Clear(kind, a)
  /\ UNCHANGED <<kind, edited, b>>

MergeFrom ==
  /\ a' = Merge(kind, a, b)
  /\ Small(a')
  /\ UNCHANGED <<kind, edited, b>>

\* Assignment a = b.
Assign ==
  /\ a' = CopyFrom(kind, a, b)
  /\ UNCHANGED <<kind, edited, b>>

\* Message b is made anew as a copy of a.
Construct ==
  /\ b' = Copy(kind, a)
  /\ UNCHANGED <<kind, edited, a>>

\* Swap, and assignment of a message that is moved.
InternalSwap ==
  /\ a' = b /\ b' = a
  /\ UNCHANGED <<kind, edited>>

\* The parser reads one more field into message a.
ReadField ==
  /\ \E e \in Entries(kind) : a' = ReadEntry(Table(kind), a, e, ParseUser)
  /\ Small(a')
  /\ UNCHANGED <<kind, edited, b>>

\* Message a is sent, and received as b.
Send ==
  /\ b' = Parse(kind, New(kind), Serialize(kind, a))
  /\ UNCHANGED <<kind, edited, a>>

MessagesNext ==
  \/ Edit \/ ClearMessage \/ MergeFrom \/ Assign \/ Construct \/ InternalSwap \/ ReadField \/ Send

MessagesSpec == MessagesInit /\ [][MessagesNext]_messageVars

-----------------------------------------------------------------------------
(* Properties                                                              *)

\* What the getters of a user return.
UserContents(u) ==
  [id |-> u.val.id.text, name |-> u.val.name.text, email |-> u.val.email.text,
   created_at |-> u.val.created_at, unknown |-> u.unknown]

RowOf(k, f) == CHOOSE r \in Table(k) : r.field = f

\* What the getters return, and the unknown fields.
Contents(k, m) ==
  [fields |-> [f \in Fields(k) |->
     LET v == m.val[f]
         type == RowOf(k, f).type
     IN  CASE type = "text" -> v.text
           [] type \in {"int32", "int64"} -> v
           [] type = "user" -> IF Has(m, RowOf(k, f).bit) THEN <<UserContents(v)>> ELSE <<>>
           [] type = "users" -> [j \in 1..Len(v) |-> UserContents(v[j])]],
   unknown |-> m.unknown]

HintHolds(m, bit, v, type) ==
  CASE type = "text" -> /\ v.text # Empty => Has(m, bit)
                        /\ Has(m, bit) => v.own
    [] type \in {"int32", "int64"} -> v # 0 => Has(m, bit)
    [] type = "user" -> Has(m, bit) => v # NULL
    [] type = "users" -> v # <<>> => Has(m, bit)

UserHints(u) == \A r \in UserTable : HintHolds(u, r.bit, u.val[r.field], r.type)

\* The has-bits can be trusted, after any sequence of edits, merges, copies,
\* swaps and parses: a field without its bit has its default, so that no
\* method skips a value; one with its bit has a string or a user of its own
\* for Clear() to write to, never the shared empty string; and a user whose bit
\* is cleared is empty, so that the next merge adds to nothing.
HintsHold ==
  \A m \in {a, b} : \A r \in Table(kind) :
    LET v == m.val[r.field]
    IN  /\ HintHolds(m, r.bit, v, r.type)
        /\ r.type = "user" /\ v # NULL =>
             /\ UserHints(v)
             /\ ~Has(m, r.bit) => UserContents(v) = UserContents(NewUser)
        /\ r.type = "users" => \A j \in 1..Len(v) : UserHints(v[j])

\* ByteSizeLong() announces exactly the bytes that _InternalSerialize() writes,
\* which does not check the end of the buffer again.
SizeFits == ByteSize(kind, a) = Bytes(Serialize(kind, a))

\* A message arrives as it was sent, with negative ints and unknown fields,
\* and with its user, or list, present or not.
RoundTrip ==
  Contents(kind, Parse(kind, New(kind), Serialize(kind, a))) = Contents(kind, a)

\* MergeFrom() does what parsing the bytes of both messages one after the
\* other would do.
MergeIsConcatenation ==
  Contents(kind, Merge(kind, a, b)) =
    Contents(kind, Parse(kind, New(kind), Serialize(kind, a) \o Serialize(kind, b)))

\* After an assignment nothing of the old message is left.
CopiesEqual == Contents(kind, CopyFrom(kind, a, b)) = Contents(kind, b)

=============================================================================
