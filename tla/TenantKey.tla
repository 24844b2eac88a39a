----------------------------- MODULE TenantKey ------------------------------
(***************************************************************************)
(* How a login finds its tenant.  A tenant key (region, zone, namespace,   *)
(* cluster) is encoded as four lengths in hexadecimal and the four fields, *)
(* letters shifted by their place.  A client logs in as `key.user';        *)
(* change_tenant_if_need splits the name at the last dot, and              *)
(* connect_to_backend decodes the key and routes by the result.            *)
(*                                                                         *)
(* A string is a sequence of ASCII codes, so that lengths in characters    *)
(* and in bytes agree; none is NUL, which ends a name in a packet.         *)
(***************************************************************************)
EXTENDS Integers, Sequences

CONSTANTS
  HexBase,   \* 16
  Keys,      \* tenant keys: functions from 1..4 to strings
  Users,     \* user names
  None

Char == 1..127
Dot == 46

ASSUME TenantAssumption ==
  /\ HexBase \in 2..16
  /\ Keys \subseteq [1..4 -> Seq(Char)]
  /\ Users \subseteq Seq(Char)
  /\ None \notin Seq(Char)

(* The lengths are u8.                                                     *)
ByteMod == HexBase * HexBase

----------------------------------------------------------------------------
(* obfuscate_char, restore_char: letters move within their alphabet.       *)

IsLower(c) == c \in 97..122
IsAlphabetic(c) == c \in 65..90 \/ c \in 97..122
Base(c) == IF IsLower(c) THEN 97 ELSE 65
Shift(index) == (index * 3 + 10) % 26

ObfuscateChar(c, index) ==
  IF IsAlphabetic(c)
    THEN Base(c) + ((c - Base(c) + 26 - Shift(index)) % 26) ELSE c

(* Mutant: the index starts from 1 here and from 0 in ObfuscateChar.       *)
RestoreCharFromOne(c, index) ==
  IF IsAlphabetic(c)
    THEN Base(c) + ((c - Base(c) + Shift(index + 1)) % 26) ELSE c

RestoreChar(c, index) ==
  IF IsAlphabetic(c)
    THEN Base(c) + ((c - Base(c) + Shift(index)) % 26) ELSE c

ObfuscateString(s) == [i \in 1..Len(s) |-> ObfuscateChar(s[i], i - 1)]
RestoreString(s) == [i \in 1..Len(s) |-> RestoreChar(s[i], i - 1)]

----------------------------------------------------------------------------
(* hex::encode and hex::decode, one digit at a time.                       *)

HexDigit(v) == IF v < 10 THEN 48 + v ELSE 87 + v

HexValue(c) ==
  IF c \in 48..57 THEN c - 48 ELSE IF c \in 97..102 THEN c - 87 ELSE c - 55

IsHex(c) ==
  /\ c \in 48..57 \/ c \in 97..102 \/ c \in 65..70
  /\ HexValue(c) < HexBase

(* encode_tenant_key.                                                      *)
LenByte(s) == Len(s) % ByteMod

Header(key) ==
  [i \in 1..8 |->
     LET n == LenByte(key[(i + 1) \div 2])
     IN  HexDigit(IF i % 2 = 1 THEN n \div HexBase ELSE n % HexBase)]

EncodeTenantKey(key) ==
  Header(key) \o ObfuscateString(key[1]) \o ObfuscateString(key[2])
              \o ObfuscateString(key[3]) \o ObfuscateString(key[4])

(* decode_tenant_key: the lengths, where a field starts (a sum of u8s,     *)
(* which wraps in a release build) and where it ends.                      *)
KeyLen(s, i) == HexValue(s[2 * i - 1]) * HexBase + HexValue(s[2 * i])

Start(s, i) ==
  LET sum == (IF i > 1 THEN KeyLen(s, 1) ELSE 0)
             + (IF i > 2 THEN KeyLen(s, 2) ELSE 0)
             + (IF i > 3 THEN KeyLen(s, 3) ELSE 0)
  IN  8 + (sum % ByteMod)

End(s, i) == Start(s, i) + KeyLen(s, i)

(* Slicing or hex::decode panics on anything else.                         *)
Decodable(s) ==
  /\ Len(s) >= 8
  /\ \A i \in 1..8 : IsHex(s[i])
  /\ \A i \in 1..4 : End(s, i) <= Len(s)

DecodeTenantKey(s) ==
  [i \in 1..4 |-> RestoreString(SubSeq(s, Start(s, i) + 1, End(s, i)))]

----------------------------------------------------------------------------
(* A login.                                                                *)

VARIABLES
  key,     \* the client's tenant
  user,    \* its user name there
  sync,    \* PROXY_ENV_SYNC_ROUTER is "true"
  login,   \* the name in the HandshakeResponse, or None
  resp,    \* HandshakeResponse::tenant_key and ::username
  tenant,  \* what connect_to_backend routes by, or None
  at       \* "start", "handshake", "split", "routed", "panicked"

vars == <<key, user, sync, login, resp, tenant, at>>

Response(k, u) == [tenant_key |-> k, username |-> u]

(* test_tenant_key: "NONE" four times.                                     *)
TestTenantKey == [i \in 1..4 |-> <<78, 79, 78, 69>>]

Init ==
  /\ key \in Keys /\ user \in Users /\ sync \in BOOLEAN
  /\ login = <<>> /\ resp = Response(None, <<>>)
  /\ tenant = None /\ at = "start"

(* The client names its tenant, or does not.                               *)
Login ==
  /\ at = "start" /\ at' = "handshake"
  /\ login' \in {EncodeTenantKey(key) \o <<Dot>> \o user, user}
  /\ UNCHANGED <<key, user, sync, resp, tenant>>

Dots(s) == {i \in 1..Len(s) : s[i] = Dot}

(* rposition.                                                              *)
SplitPos(s) == CHOOSE i \in Dots(s) : \A j \in Dots(s) : j <= i

(* What change_tenant_if_need makes of the name in a HandshakeResponse.    *)
Changed(s) ==
  IF sync /\ Dots(s) # {}
    THEN Response(SubSeq(s, 1, SplitPos(s) - 1), SubSeq(s, SplitPos(s) + 1, Len(s)))
    ELSE Response(None, s)

ChangeTenantIfNeed ==
  /\ at = "handshake" /\ at' = "split"
  /\ resp' = Changed(login)
  /\ UNCHANGED <<key, user, sync, login, tenant>>

(* connect_to_backend, up to the call of the router.                       *)
ConnectToBackend ==
  /\ at = "split" /\ at' = "routed"
  /\ resp.tenant_key # None => Decodable(resp.tenant_key)
  /\ tenant' = IF resp.tenant_key = None THEN TestTenantKey
               ELSE DecodeTenantKey(resp.tenant_key)
  /\ UNCHANGED <<key, user, sync, login, resp>>

DecodePanics ==
  /\ at = "split"
  /\ resp.tenant_key # None /\ ~Decodable(resp.tenant_key)
  /\ at' = "panicked"
  /\ UNCHANGED <<key, user, sync, login, resp, tenant>>

Next == Login \/ ChangeTenantIfNeed \/ ConnectToBackend \/ DecodePanics

Spec == Init /\ [][Next]_vars

----------------------------------------------------------------------------
(* Properties.                                                             *)

Named == login = EncodeTenantKey(key) \o <<Dot>> \o user

(* The lengths fit into u8, the sum of the first three included.           *)
LengthsFit(k) ==
  /\ \A i \in 1..4 : Len(k[i]) < ByteMod
  /\ Len(k[1]) + Len(k[2]) + Len(k[3]) < ByteMod

(* A client that names its tenant is routed by exactly that tenant key,    *)
(* and is the user it named, whatever the fields are: empty, with dots,    *)
(* with letters of both cases, with hexadecimal digits next to the header. *)
(* The name of the user must not have a dot and the lengths must fit into  *)
(* u8.  backend/mod.rs:60-102, basic.rs:123-139, backend_mgr.rs:120-125.   *)
RightTenant ==
  at \in {"routed", "panicked"} /\ sync /\ Named /\ Dots(user) = {}
    /\ LengthsFit(key) =>
      at = "routed" /\ tenant = key

(* Without a tenant in the name, or without a synchronised router, the     *)
(* name reaches the server as the client gave it.                          *)
RightUser ==
  at = "split" /\ Dots(user) = {} =>
    resp.username = IF sync THEN user ELSE login
==============================================================================
