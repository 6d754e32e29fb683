----------------------------- MODULE BboltRegistry -----------------------------
(***************************************************************************)
(* The device database on bbolt (database/bbolt.go).  Each operation is    *)
(* one transaction.                                                        *)
(*                                                                         *)
(* The bucket holds records of three formats: info:<key>:<platform>, which *)
(* the server writes today; info:<key>, written by a release that knew one *)
(* platform per key; and <key>, the bare token of an iOS device, written   *)
(* by the oldest release and still kept up for it.                         *)
(***************************************************************************)
EXTENDS Naturals

CONSTANTS
  Keys,       \* device keys
  Tokens      \* device tokens

NoToken   == 0
Platforms == {"ios", "harmony"}

ASSUME RegistryAssumption == Tokens \subseteq Nat \ {NoToken}

VARIABLES
  info,    \* info:<key>:<platform> -> token
  legacy,  \* info:<key> -> its platform and token
  bare     \* <key> -> token

registry == <<info, legacy, bare>>

RegistryTypeOK ==
  /\ DOMAIN info \subseteq Keys \X Platforms
  /\ info \in [DOMAIN info -> Tokens \cup {NoToken}]
  /\ DOMAIN legacy \subseteq Keys
  /\ legacy \in [DOMAIN legacy -> [platform : Platforms, token : Tokens]]
  /\ DOMAIN bare \subseteq Keys
  /\ bare \in [DOMAIN bare -> Tokens \cup {NoToken}]

Nothing == [x \in {} |-> NoToken]

With(f, k, v) == [x \in DOMAIN f \cup {k} |-> IF x = k THEN v ELSE f[x]]

Without(f, k) == [x \in DOMAIN f \ {k} |-> f[x]]

(***************************************************************************)
(* Reading.  DevicesByKey prefers the newer format, platform by platform;  *)
(* an iOS device known by an emptied bare record only makes it fail.       *)
(***************************************************************************)
Current(k) == [p \in {q \in Platforms : <<k, q>> \in DOMAIN info} |-> info[<<k, p>>]]

Older(k)   == IF k \in DOMAIN legacy THEN [p \in {legacy[k].platform} |-> legacy[k].token]
              ELSE Nothing

Oldest(k)  == IF k \in DOMAIN bare THEN [p \in {"ios"} |-> bare[k]] ELSE Nothing

\* The keys and platforms with a record of some format, and the newest one's token.
Known ==
  {kp \in Keys \X Platforms :
     \/ kp \in DOMAIN info
     \/ kp[1] \in DOMAIN legacy /\ legacy[kp[1]].platform = kp[2]
     \/ kp[1] \in DOMAIN bare /\ kp[2] = "ios"}

TokenOf(kp) ==
  IF kp \in DOMAIN info THEN info[kp]
  ELSE IF kp[1] \in DOMAIN legacy /\ legacy[kp[1]].platform = kp[2] THEN legacy[kp[1]].token
  ELSE bare[kp[1]]

\* The records of the key, as a function from platforms to tokens.
Records(k) == [p \in {q \in Platforms : <<k, q>> \in Known} |-> TokenOf(<<k, p>>)]

Unreadable(k) ==
  /\ "ios" \notin DOMAIN Current(k) \cup DOMAIN Older(k)
  /\ k \in DOMAIN bare /\ bare[k] = NoToken

DevicesByKey(k) == IF Unreadable(k) THEN Nothing ELSE Records(k)

\* DeviceTokenByKey looks the formats through one after the other, for a token.
DeviceTokenByKey(k) ==
  LET tokens == <<Current(k), Older(k), Oldest(k)>>
      found  == {n \in 1 .. 3 : \E p \in DOMAIN tokens[n] : tokens[n][p] # NoToken}
      first  == tokens[CHOOSE n \in found : \A m \in found : n <= m]
  IN IF found = {} THEN NoToken
     ELSE IF "ios" \in DOMAIN first /\ first["ios"] # NoToken
       THEN first["ios"]
       ELSE first["harmony"]

(***************************************************************************)
(* Writing.                                                                *)
(***************************************************************************)
\* Faulty: it replaces all the key has.
SaveDeviceInfoAlone(k, p, t) ==
  /\ info' = With([kp \in {x \in DOMAIN info : x[1] # k} |-> info[kp]], <<k, p>>, t)
  /\ legacy' = Without(legacy, k)
  /\ bare' = IF p = "ios" THEN With(bare, k, t) ELSE Without(bare, k)

SaveDeviceInfo(k, p, t) ==
  /\ info' = With(info, <<k, p>>, t)
  /\ legacy' = Without(legacy, k)
  /\ bare' = IF p = "ios" THEN With(bare, k, t) ELSE bare

\* Faulty: the bare record keeps the token.
ClearInfoOnly(k, p) ==
  /\ info' = IF <<k, p>> \in DOMAIN info THEN [info EXCEPT ![<<k, p>>] = NoToken] ELSE info
  /\ UNCHANGED <<legacy, bare>>

\* Faulty: the platform is taken for the default one.
ClearDefaultPlatform(k, p) ==
  /\ info' = IF <<k, "ios">> \in DOMAIN info THEN [info EXCEPT ![<<k, "ios">>] = NoToken] ELSE info
  /\ bare' = IF <<k, "ios">> \in DOMAIN info THEN With(bare, k, NoToken) ELSE bare
  /\ UNCHANGED legacy

\* Faulty: nothing is cleared.
ClearNothing(k, p) == UNCHANGED registry

\* Only a record of the current format is cleared.
ClearDeviceTokenByKeyAndPlatform(k, p) ==
  IF <<k, p>> \in DOMAIN info
  THEN /\ info' = [info EXCEPT ![<<k, p>>] = NoToken]
       /\ bare' = IF p = "ios" THEN With(bare, k, NoToken) ELSE bare
       /\ UNCHANGED legacy
  ELSE UNCHANGED registry

\* No handler of the server calls it.
DeleteDeviceByKey(k) ==
  /\ info' = [kp \in {x \in DOMAIN info : x[1] # k} |-> info[kp]]
  /\ legacy' = Without(legacy, k)
  /\ bare' = Without(bare, k)

(***************************************************************************)
(* The two reads agree on whether a key has a token: the registration      *)
(* check (GET /register/:device_key) and a push say the same.              *)
(***************************************************************************)
CheckAgrees ==
  \A k \in Keys :
    (DeviceTokenByKey(k) # NoToken)
      <=> \E p \in DOMAIN DevicesByKey(k) : DevicesByKey(k)[p] # NoToken

(***************************************************************************)
(* "DevicesByKey returns every (key, platform) record bound to the key"    *)
(* (database/database.go:27): a device whose token is stored is found by a *)
(* push.  An emptied bare record of an older release hides the HarmonyOS   *)
(* device that is registered under the same key.                           *)
(***************************************************************************)
EveryRecordReturned ==
  \A kp \in Known : TokenOf(kp) # NoToken => kp[2] \in DOMAIN DevicesByKey(kp[1])

(***************************************************************************)
(* The bucket implements the interface: each operation does to the records *)
(* that DevicesByKey returns what database.go says, and nothing else.      *)
(***************************************************************************)
Interface == INSTANCE DeviceRegistry
               WITH reg <- [kp \in Known |-> TokenOf(kp)]

ImplementsInterface == Interface!RegSpec
=============================================================================
