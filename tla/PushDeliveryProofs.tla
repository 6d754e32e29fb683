-------------------------- MODULE PushDeliveryProofs --------------------------
(***************************************************************************)
(* The device registry and the push pipeline, for any number of keys,      *)
(* tokens, requests and renewals.                                          *)
(*                                                                         *)
(* Synced relates the three formats of the bucket: it is what makes the    *)
(* two reads agree and the bucket implement the interface.  Behind and     *)
(* Newest say that no token read, kept or called dead is newer than the    *)
(* one its device holds; Sound says how a request accounts for each of its *)
(* platforms; Withdrawn that what ended before a delete request began      *)
(* never comes back.                                                       *)
(***************************************************************************)
EXTENDS PushDelivery, TLAPS

(***************************************************************************)
(* The registry.                                                           *)
(***************************************************************************)
Synced ==
  /\ \A k \in Keys : <<k, "ios">> \in DOMAIN info =>
       k \in DOMAIN bare /\ bare[k] = info[<<k, "ios">>]
  /\ \A k \in DOMAIN bare : bare[k] = NoToken => <<k, "ios">> \in DOMAIN info
  /\ \A k \in DOMAIN legacy :
       k \notin DOMAIN bare /\ \A p \in Platforms : <<k, p>> \notin DOMAIN info

\* What a registration leaves in the bucket, and what clearing a token does.
Saved(k, p, t) ==
  /\ DOMAIN info' = DOMAIN info \cup {<<k, p>>} /\ info'[<<k, p>>] = t
  /\ \A kp \in DOMAIN info \ {<<k, p>>} : info'[kp] = info[kp]
  /\ DOMAIN legacy' = DOMAIN legacy \ {k}
  /\ \A j \in DOMAIN legacy \ {k} : legacy'[j] = legacy[j]
  /\ DOMAIN bare' = IF p = "ios" THEN DOMAIN bare \cup {k} ELSE DOMAIN bare
  /\ p = "ios" => bare'[k] = t
  /\ \A j \in DOMAIN bare : ~ (j = k /\ p = "ios") => bare'[j] = bare[j]

Cleared(k, p) ==
  /\ DOMAIN info' = DOMAIN info /\ legacy' = legacy
  /\ <<k, p>> \in DOMAIN info => info'[<<k, p>>] = NoToken
  /\ \A kp \in DOMAIN info \ {<<k, p>>} : info'[kp] = info[kp]
  /\ <<k, p>> \notin DOMAIN info => bare' = bare /\ info' = info
  /\ <<k, p>> \in DOMAIN info =>
       /\ DOMAIN bare' = IF p = "ios" THEN DOMAIN bare \cup {k} ELSE DOMAIN bare
       /\ p = "ios" => bare'[k] = NoToken
  /\ \A j \in DOMAIN bare : ~ (j = k /\ p = "ios") => bare'[j] = bare[j]

LEMMA SaveFacts ==
  ASSUME RegistryTypeOK, NEW k \in Keys, NEW p \in Platforms, NEW t \in Tokens,
         SaveDeviceInfo(k, p, t)
  PROVE  Saved(k, p, t) /\ RegistryTypeOK'
<1>1. /\ info' = With(info, <<k, p>>, t) /\ legacy' = Without(legacy, k)
      /\ bare' = IF p = "ios" THEN With(bare, k, t) ELSE bare
  BY DEF SaveDeviceInfo
<1>2. /\ DOMAIN info' = DOMAIN info \cup {<<k, p>>} /\ info'[<<k, p>>] = t
      /\ \A kp \in DOMAIN info \ {<<k, p>>} : info'[kp] = info[kp]
      /\ info' = [x \in DOMAIN info' |-> info'[x]]
  BY <1>1 DEF With
<1>3. /\ DOMAIN legacy' = DOMAIN legacy \ {k}
      /\ \A j \in DOMAIN legacy \ {k} : legacy'[j] = legacy[j]
      /\ legacy' = [x \in DOMAIN legacy' |-> legacy'[x]]
  BY <1>1 DEF Without
<1>4. /\ DOMAIN bare' = IF p = "ios" THEN DOMAIN bare \cup {k} ELSE DOMAIN bare
      /\ p = "ios" => bare'[k] = t
      /\ \A j \in DOMAIN bare : ~ (j = k /\ p = "ios") => bare'[j] = bare[j]
      /\ bare' = [x \in DOMAIN bare' |-> bare'[x]]
  <2>1. CASE p = "ios"
    BY <1>1, <2>1 DEF With
  <2>2. CASE p # "ios"
    BY <1>1, <2>2 DEF RegistryTypeOK
  <2> QED
    BY <2>1, <2>2
<1>5. DOMAIN info' \subseteq Keys \X Platforms /\ info' \in [DOMAIN info' -> Tokens \cup {NoToken}]
  <2>1. \A kp \in DOMAIN info' : info'[kp] \in Tokens \cup {NoToken}
    BY <1>2 DEF RegistryTypeOK
  <2> QED
    BY <1>2, <2>1 DEF RegistryTypeOK
<1>6. DOMAIN legacy' \subseteq Keys /\ legacy' \in [DOMAIN legacy' -> [platform : Platforms, token : Tokens]]
  <2>1. \A j \in DOMAIN legacy' : legacy'[j] \in [platform : Platforms, token : Tokens]
    BY <1>3 DEF RegistryTypeOK
  <2> QED
    BY <1>3, <2>1 DEF RegistryTypeOK
<1>7. DOMAIN bare' \subseteq Keys /\ bare' \in [DOMAIN bare' -> Tokens \cup {NoToken}]
  <2>1. \A j \in DOMAIN bare' : bare'[j] \in Tokens \cup {NoToken}
    BY <1>4 DEF RegistryTypeOK
  <2> QED
    BY <1>4, <2>1 DEF RegistryTypeOK
<1> QED
  BY <1>2, <1>3, <1>4, <1>5, <1>6, <1>7 DEF RegistryTypeOK, Saved

LEMMA ClearFacts ==
  ASSUME RegistryTypeOK, NEW k \in Keys, NEW p \in Platforms,
         ClearDeviceTokenByKeyAndPlatform(k, p)
  PROVE  Cleared(k, p) /\ RegistryTypeOK'
<1>1. CASE <<k, p>> \notin DOMAIN info
  <2>1. info' = info /\ legacy' = legacy /\ bare' = bare
    BY <1>1 DEF ClearDeviceTokenByKeyAndPlatform, registry
  <2> QED
    BY <1>1, <2>1 DEF RegistryTypeOK, Cleared
<1>2. CASE <<k, p>> \in DOMAIN info
  <2>1. /\ info' = [info EXCEPT ![<<k, p>>] = NoToken] /\ legacy' = legacy
        /\ bare' = IF p = "ios" THEN With(bare, k, NoToken) ELSE bare
    BY <1>2 DEF ClearDeviceTokenByKeyAndPlatform
  <2>2. /\ DOMAIN info' = DOMAIN info /\ info'[<<k, p>>] = NoToken
        /\ \A kp \in DOMAIN info \ {<<k, p>>} : info'[kp] = info[kp]
        /\ info' \in [DOMAIN info' -> Tokens \cup {NoToken}]
    BY <1>2, <2>1 DEF RegistryTypeOK
  <2>3. /\ DOMAIN bare' = IF p = "ios" THEN DOMAIN bare \cup {k} ELSE DOMAIN bare
        /\ p = "ios" => bare'[k] = NoToken
        /\ \A j \in DOMAIN bare : ~ (j = k /\ p = "ios") => bare'[j] = bare[j]
        /\ bare' = [x \in DOMAIN bare' |-> bare'[x]]
    <3>1. CASE p = "ios"
      BY <2>1, <3>1 DEF With
    <3>2. CASE p # "ios"
      BY <2>1, <3>2 DEF RegistryTypeOK
    <3> QED
      BY <3>1, <3>2
  <2>4. DOMAIN bare' \subseteq Keys /\ bare' \in [DOMAIN bare' -> Tokens \cup {NoToken}]
    <3>1. \A j \in DOMAIN bare' : bare'[j] \in Tokens \cup {NoToken}
      BY <2>3 DEF RegistryTypeOK
    <3> QED
      BY <2>3, <3>1 DEF RegistryTypeOK
  <2> QED
    BY <1>2, <2>1, <2>2, <2>3, <2>4 DEF RegistryTypeOK, Cleared
<1> QED
  BY <1>1, <1>2

LEMMA SaveKeepsSynced ==
  ASSUME RegistryTypeOK, Synced, NEW k \in Keys, NEW p \in Platforms, NEW t \in Tokens,
         SaveDeviceInfo(k, p, t)
  PROVE  Synced'
<1>1. t # NoToken
  BY RegistryAssumption
<1>5. Saved(k, p, t)
  BY SaveFacts
<1>2. ASSUME NEW j \in Keys, <<j, "ios">> \in DOMAIN info'
      PROVE  j \in DOMAIN bare' /\ bare'[j] = info'[<<j, "ios">>]
  <2>1. CASE j = k /\ p = "ios"
    BY <1>5, <2>1 DEF Saved
  <2>2. CASE ~ (j = k /\ p = "ios")
    <3>1. <<j, "ios">> \in DOMAIN info \ {<<k, p>>}
      BY <1>2, <1>5, <2>2 DEF Saved
    <3>2. j \in DOMAIN bare /\ bare[j] = info[<<j, "ios">>]
      BY <3>1 DEF Synced, Saved
    <3> QED
      BY <1>5, <2>2, <3>1, <3>2 DEF Saved
  <2> QED
    BY <2>1, <2>2
<1>3. ASSUME NEW j \in DOMAIN bare', bare'[j] = NoToken
      PROVE  <<j, "ios">> \in DOMAIN info'
  <2>1. ~ (j = k /\ p = "ios")
    BY <1>1, <1>3, <1>5 DEF Saved
  <2>2. j \in DOMAIN bare /\ bare[j] = NoToken
    BY <1>3, <1>5, <2>1 DEF Saved
  <2> QED
    BY <1>5, <2>2 DEF Synced, Saved
<1>4. ASSUME NEW j \in DOMAIN legacy'
      PROVE  j \notin DOMAIN bare' /\ \A q \in Platforms : <<j, q>> \notin DOMAIN info'
  <2>1. j \in DOMAIN legacy /\ j # k
    BY <1>5 DEF Saved
  <2>2. j \notin DOMAIN bare /\ \A q \in Platforms : <<j, q>> \notin DOMAIN info
    BY <2>1 DEF Synced, Saved
  <2> QED
    BY <1>5, <2>1, <2>2 DEF Saved
<1> QED
  BY <1>2, <1>3, <1>4 DEF Synced, Saved

LEMMA ClearKeepsSynced ==
  ASSUME RegistryTypeOK, Synced, NEW k \in Keys, NEW p \in Platforms,
         ClearDeviceTokenByKeyAndPlatform(k, p)
  PROVE  Synced'
<1>0. Cleared(k, p)
  BY ClearFacts
<1>1. CASE <<k, p>> \notin DOMAIN info
  BY <1>0, <1>1 DEF Synced, Cleared
<1>2. CASE <<k, p>> \in DOMAIN info
  <2>1. ASSUME NEW j \in Keys, <<j, "ios">> \in DOMAIN info'
        PROVE  j \in DOMAIN bare' /\ bare'[j] = info'[<<j, "ios">>]
    <3>1. CASE j = k /\ p = "ios"
      BY <1>0, <1>2, <3>1 DEF Cleared
    <3>2. CASE ~ (j = k /\ p = "ios")
      <4>1. <<j, "ios">> \in DOMAIN info \ {<<k, p>>}
        BY <1>0, <2>1, <3>2 DEF Cleared
      <4>2. j \in DOMAIN bare /\ bare[j] = info[<<j, "ios">>]
        BY <4>1 DEF Synced
      <4> QED
        BY <1>0, <1>2, <3>2, <4>1, <4>2 DEF Cleared
    <3> QED
      BY <3>1, <3>2
  <2>2. ASSUME NEW j \in DOMAIN bare', bare'[j] = NoToken
        PROVE  <<j, "ios">> \in DOMAIN info'
    <3>1. CASE j = k /\ p = "ios"
      BY <1>0, <1>2, <3>1 DEF Cleared
    <3>2. CASE ~ (j = k /\ p = "ios")
      <4>1. j \in DOMAIN bare /\ bare[j] = NoToken
        BY <1>0, <1>2, <2>2, <3>2 DEF Cleared
      <4> QED
        BY <1>0, <4>1 DEF Synced, Cleared
    <3> QED
      BY <3>1, <3>2
  <2>3. ASSUME NEW j \in DOMAIN legacy'
        PROVE  j \notin DOMAIN bare' /\ \A q \in Platforms : <<j, q>> \notin DOMAIN info'
    <3>1. j \in DOMAIN legacy
      BY <1>0 DEF Cleared
    <3>2. j \notin DOMAIN bare /\ \A q \in Platforms : <<j, q>> \notin DOMAIN info
      BY <3>1 DEF Synced
    <3>3. j # k
      BY <1>2, <3>2
    <3> QED
      BY <1>0, <1>2, <3>2, <3>3 DEF Cleared
  <2> QED
    BY <2>1, <2>2, <2>3 DEF Synced
<1> QED
  BY <1>1, <1>2

\* The three formats as the reads see them.
LEMMA FormatFacts ==
  ASSUME RegistryTypeOK, NEW k \in Keys
  PROVE  /\ DOMAIN Current(k) = {p \in Platforms : <<k, p>> \in DOMAIN info}
         /\ \A p \in DOMAIN Current(k) : Current(k)[p] = info[<<k, p>>]
         /\ \A p : p \in DOMAIN Older(k) <=> k \in DOMAIN legacy /\ p = legacy[k].platform
         /\ \A p \in DOMAIN Older(k) : Older(k)[p] = legacy[k].token
         /\ \A p : p \in DOMAIN Oldest(k) <=> k \in DOMAIN bare /\ p = "ios"
         /\ \A p \in DOMAIN Oldest(k) : Oldest(k)[p] = bare[k]
         /\ k \in DOMAIN legacy => legacy[k].platform \in Platforms /\ legacy[k].token \in Tokens
<1>1. /\ DOMAIN Current(k) = {p \in Platforms : <<k, p>> \in DOMAIN info}
      /\ \A p \in DOMAIN Current(k) : Current(k)[p] = info[<<k, p>>]
  BY DEF Current
<1>2. /\ \A p : p \in DOMAIN Older(k) <=> k \in DOMAIN legacy /\ p = legacy[k].platform
      /\ \A p \in DOMAIN Older(k) : Older(k)[p] = legacy[k].token
  BY DEF Older, Nothing
<1>3. /\ \A p : p \in DOMAIN Oldest(k) <=> k \in DOMAIN bare /\ p = "ios"
      /\ \A p \in DOMAIN Oldest(k) : Oldest(k)[p] = bare[k]
  BY DEF Oldest, Nothing
<1> QED
  BY <1>1, <1>2, <1>3 DEF RegistryTypeOK

LEMMA RecordFacts ==
  ASSUME RegistryTypeOK, NEW k \in Keys
  PROVE  /\ DOMAIN Records(k) = DOMAIN Current(k) \cup DOMAIN Older(k) \cup DOMAIN Oldest(k)
         /\ DOMAIN Records(k) \subseteq Platforms
         /\ \A p \in DOMAIN Records(k) :
              Records(k)[p] = IF p \in DOMAIN Current(k) THEN Current(k)[p]
                              ELSE IF p \in DOMAIN Older(k) THEN Older(k)[p]
                              ELSE Oldest(k)[p]
<1>1. \A p \in Platforms :
        <<k, p>> \in Known <=> \/ <<k, p>> \in DOMAIN info
                               \/ k \in DOMAIN legacy /\ legacy[k].platform = p
                               \/ k \in DOMAIN bare /\ p = "ios"
  BY DEF Known
<1>2. \A p \in Platforms :
        TokenOf(<<k, p>>) = IF <<k, p>> \in DOMAIN info THEN info[<<k, p>>]
                            ELSE IF k \in DOMAIN legacy /\ legacy[k].platform = p
                              THEN legacy[k].token
                              ELSE bare[k]
  BY DEF TokenOf
<1>3. /\ DOMAIN Records(k) = {p \in Platforms : <<k, p>> \in Known}
      /\ \A p \in DOMAIN Records(k) : Records(k)[p] = TokenOf(<<k, p>>)
  BY DEF Records
<1>4. "ios" \in Platforms /\ (k \in DOMAIN legacy => legacy[k].platform \in Platforms)
  BY DEF Platforms, RegistryTypeOK
<1>5. ASSUME NEW p \in Platforms
      PROVE  /\ p \in DOMAIN Current(k) <=> <<k, p>> \in DOMAIN info
             /\ p \in DOMAIN Current(k) => Current(k)[p] = info[<<k, p>>]
             /\ p \in DOMAIN Older(k) <=> k \in DOMAIN legacy /\ legacy[k].platform = p
             /\ p \in DOMAIN Older(k) => Older(k)[p] = legacy[k].token
             /\ p \in DOMAIN Oldest(k) <=> k \in DOMAIN bare /\ p = "ios"
             /\ p \in DOMAIN Oldest(k) => Oldest(k)[p] = bare[k]
  <2>1. /\ p \in DOMAIN Current(k) <=> <<k, p>> \in DOMAIN info
        /\ p \in DOMAIN Current(k) => Current(k)[p] = info[<<k, p>>]
    BY DEF Current
  <2>2. /\ p \in DOMAIN Older(k) <=> k \in DOMAIN legacy /\ legacy[k].platform = p
        /\ p \in DOMAIN Older(k) => Older(k)[p] = legacy[k].token
    BY DEF Older, Nothing
  <2>3. /\ p \in DOMAIN Oldest(k) <=> k \in DOMAIN bare /\ p = "ios"
        /\ p \in DOMAIN Oldest(k) => Oldest(k)[p] = bare[k]
    BY DEF Oldest, Nothing
  <2> QED
    BY <2>1, <2>2, <2>3
<1>6. DOMAIN Current(k) \cup DOMAIN Older(k) \cup DOMAIN Oldest(k) \subseteq Platforms
  <2>1. DOMAIN Current(k) \subseteq Platforms
    BY DEF Current
  <2>2. DOMAIN Older(k) \subseteq Platforms
    BY <1>4 DEF Older, Nothing
  <2>3. DOMAIN Oldest(k) \subseteq Platforms
    BY <1>4 DEF Oldest, Nothing
  <2> QED
    BY <2>1, <2>2, <2>3
<1>7. \A p \in Platforms :
        p \in DOMAIN Records(k)
          <=> p \in DOMAIN Current(k) \cup DOMAIN Older(k) \cup DOMAIN Oldest(k)
  BY <1>1, <1>3, <1>5
<1>8. DOMAIN Records(k) = DOMAIN Current(k) \cup DOMAIN Older(k) \cup DOMAIN Oldest(k)
  <2>1. DOMAIN Records(k) \subseteq Platforms
    BY <1>3
  <2> QED
    BY <1>6, <1>7, <2>1
<1>9. ASSUME NEW p \in DOMAIN Records(k)
      PROVE  Records(k)[p] = IF p \in DOMAIN Current(k) THEN Current(k)[p]
                             ELSE IF p \in DOMAIN Older(k) THEN Older(k)[p]
                             ELSE Oldest(k)[p]
  <2>1. p \in Platforms /\ <<k, p>> \in Known /\ Records(k)[p] = TokenOf(<<k, p>>)
    BY <1>3
  <2> QED
    BY <1>1, <1>2, <1>5, <2>1
<1> QED
  BY <1>3, <1>8, <1>9

\* An emptied bare record never stands alone, so every key can be read.
LEMMA ReadsRecords ==
  ASSUME RegistryTypeOK, Synced, NEW k \in Keys
  PROVE  DevicesByKey(k) = Records(k)
<1>1. ~ Unreadable(k)
  <2> SUFFICES ASSUME Unreadable(k) PROVE FALSE
    OBVIOUS
  <2>1. <<k, "ios">> \in DOMAIN info
    BY DEF Unreadable, Synced
  <2>2. "ios" \in DOMAIN Current(k)
    BY <2>1 DEF Current, Platforms
  <2> QED
    BY <2>2 DEF Unreadable
<1> QED
  BY <1>1 DEF DevicesByKey

LEMMA ReadsAgree == RegistryTypeOK /\ Synced => CheckAgrees
<1> SUFFICES ASSUME RegistryTypeOK, Synced, NEW k \in Keys
             PROVE  (DeviceTokenByKey(k) # NoToken)
                      <=> \E p \in DOMAIN DevicesByKey(k) : DevicesByKey(k)[p] # NoToken
  BY DEF CheckAgrees
<1>1. DevicesByKey(k) = Records(k)
  BY ReadsRecords
<1> DEFINE tokens == <<Current(k), Older(k), Oldest(k)>>
           found  == {n \in 1 .. 3 : \E p \in DOMAIN tokens[n] : tokens[n][p] # NoToken}
           least  == CHOOSE n \in found : \A m \in found : n <= m
           first  == tokens[least]
<1>2. DeviceTokenByKey(k) = IF found = {} THEN NoToken
                            ELSE IF "ios" \in DOMAIN first /\ first["ios"] # NoToken
                              THEN first["ios"]
                              ELSE first["harmony"]
  BY DEF DeviceTokenByKey
<1>3. tokens[1] = Current(k) /\ tokens[2] = Older(k) /\ tokens[3] = Oldest(k)
  OBVIOUS
<1>4. \A n \in 1 .. 3 : DOMAIN tokens[n] \subseteq Platforms /\ DOMAIN tokens[n] \subseteq DOMAIN Records(k)
  <2>1. \A n \in 1 .. 3 : n = 1 \/ n = 2 \/ n = 3
    OBVIOUS
  <2> HIDE DEF tokens
  <2> QED
    BY <1>3, <2>1, RecordFacts
<1>5. \A n \in 1 .. 3 : n \in found <=> \E p \in DOMAIN tokens[n] : tokens[n][p] # NoToken
  OBVIOUS
<1>6. found \subseteq 1 .. 3
  OBVIOUS
<1>7. found # {} => least \in found
  <2> SUFFICES ASSUME found # {} PROVE \E n \in found : \A m \in found : n <= m
    OBVIOUS
  <2> HIDE DEF found
  <2>1. CASE 1 \in found
    BY <1>6, <2>1
  <2>2. CASE 1 \notin found /\ 2 \in found
    BY <1>6, <2>2
  <2>3. CASE 1 \notin found /\ 2 \notin found /\ 3 \in found
    BY <1>6, <2>3
  <2>4. 1 \in found \/ 2 \in found \/ 3 \in found
    <3>1. PICK n \in found : n \in 1 .. 3
      BY <1>6
    <3> QED
      BY <3>1
  <2> QED
    BY <2>1, <2>2, <2>3, <2>4
<1> HIDE DEF tokens, found, least
<1>8. CASE found = {}
  <2>1. /\ \A p \in DOMAIN Current(k) : Current(k)[p] = NoToken
        /\ \A p \in DOMAIN Older(k) : Older(k)[p] = NoToken
        /\ \A p \in DOMAIN Oldest(k) : Oldest(k)[p] = NoToken
    <3>1. \A n \in 1 .. 3 : \A p \in DOMAIN tokens[n] : tokens[n][p] = NoToken
      BY <1>5, <1>8
    <3> QED
      BY <1>3, <3>1
  <2>2. ASSUME NEW p \in DOMAIN Records(k)
        PROVE  Records(k)[p] = NoToken
    BY <2>1, RecordFacts
  <2> QED
    BY <1>1, <1>2, <1>8, <2>2
<1>9. CASE found # {}
  <2>1. least \in found /\ least \in 1 .. 3
    BY <1>6, <1>7, <1>9
  <2>2. PICK p \in DOMAIN first : first[p] # NoToken
    BY <1>5, <2>1
  <2>3. p \in {"ios", "harmony"}
    BY <1>4, <2>1, <2>2 DEF Platforms
  <2>4. DeviceTokenByKey(k) # NoToken
    BY <1>2, <1>9, <2>2, <2>3
  <2>5. p \in DOMAIN Records(k)
    BY <1>4, <2>1, <2>2
  <2>6. CASE least = 1
    BY <1>1, <1>3, <2>2, <2>4, <2>5, <2>6, RecordFacts
  <2>7. CASE least = 2
    <3>1. k \in DOMAIN legacy /\ p \in DOMAIN Older(k)
      BY <1>3, <2>2, <2>7, FormatFacts
    <3>2. p \notin DOMAIN Current(k)
      BY <3>1, FormatFacts DEF Synced
    <3> QED
      BY <1>1, <1>3, <2>2, <2>4, <2>5, <2>7, <3>1, <3>2, RecordFacts
  <2>8. CASE least = 3
    <3>1. p = "ios" /\ k \in DOMAIN bare /\ p \in DOMAIN Oldest(k) /\ bare[k] # NoToken
      <4>1. p \in DOMAIN Oldest(k) /\ Oldest(k)[p] # NoToken
        BY <1>3, <2>2, <2>8
      <4> QED
        BY <4>1 DEF Oldest, Nothing
    <3>2. p \notin DOMAIN Older(k)
      BY <3>1, FormatFacts DEF Synced
    <3>3. p \in DOMAIN Current(k) => Current(k)[p] = bare[k]
      <4>1. p \in DOMAIN Current(k) => <<k, p>> \in DOMAIN info /\ Current(k)[p] = info[<<k, p>>]
        BY DEF Current
      <4> QED
        BY <3>1, <4>1 DEF Synced
    <3>4. Oldest(k)[p] = bare[k]
      BY <3>1, FormatFacts
    <3>5. Records(k)[p] = bare[k]
      BY <2>5, <3>2, <3>3, <3>4, RecordFacts
    <3> QED
      BY <1>1, <2>4, <2>5, <3>1, <3>5
  <2> QED
    BY <2>1, <2>6, <2>7, <2>8
<1> QED
  BY <1>8, <1>9

(***************************************************************************)
(* The inductive invariant.                                                *)
(***************************************************************************)
Found    == UNION {[ps -> Tokens] : ps \in SUBSET Platforms}
Ends     == {"ok", "error", "dead"}
Verdicts == UNION {[ps -> Ends] : ps \in SUBSET Platforms}
Copies   == {"none", "kept", "lost", "removed"}
Codes    == {0, 200, 400, 404, 500}
AllKinds == {"plain", "fleeting", "passive", "secret"}

Request ==
  [step : Steps, key : Keys, delete : BOOLEAN, id : Ids \cup {NoId},
   kind : AllKinds, targets : Found,
   todo : SUBSET Platforms, calls : Verdicts, ok : SUBSET Platforms,
   failed : SUBSET Platforms, copy : Copies, code : Codes]

Typed ==
  /\ RegistryTypeOK
  /\ held \in [Keys \X Platforms -> Tokens]
  /\ req \in [Requests -> Request]
  /\ history \subseteq Requests
  /\ before \in [Requests -> SUBSET Requests]
  /\ reported \subseteq Keys \X Platforms \X Tokens

\* Each target of a request is at one place of its books.
Booked(x) ==
  /\ DOMAIN x.targets # {}
  /\ x.todo \cup DOMAIN x.calls \cup x.ok \cup x.failed = DOMAIN x.targets
  /\ x.todo \cap (DOMAIN x.calls \cup x.ok \cup x.failed) = {}
  /\ DOMAIN x.calls \cap (x.ok \cup x.failed) = {}
  /\ x.ok \cap x.failed = {}

Sound(x) ==
  /\ x.code # 0 <=> x.step = "done"
  /\ x.delete => x.kind = "plain" /\ (x.step # "new" => x.id # NoId)
  /\ x.step = "record" => ~ x.delete
  /\ x.step = "cleanup" => x.delete
  /\ x.step # "deliver" => DOMAIN x.calls = {}
  /\ x.step = "record" => x.ok = {} /\ x.failed = {}
  /\ x.step \notin {"new", "done"} => Booked(x)
  /\ x.kind = "passive" /\ "harmony" \in DOMAIN x.targets /\ x.step \in {"deliver", "cleanup"} =>
       /\ x.copy \in {"kept", "lost"} /\ "harmony" \notin DOMAIN x.calls
       /\ "harmony" \in x.ok => x.copy = "kept"

\* The tokens a request has read, against those the devices hold.
Newest(x, h) ==
  x.step \notin {"new", "done"} =>
    \A p \in DOMAIN x.targets :
      /\ x.targets[p] <= h[<<x.key, p>>]
      /\ p \in DOMAIN x.calls /\ x.calls[p] = "dead" => x.targets[p] < h[<<x.key, p>>]

Behind ==
  /\ \A k \in Keys, p \in Platforms : <<k, p>> \in DOMAIN info => info[<<k, p>>] <= held[<<k, p>>]
  /\ \A k \in DOMAIN legacy : legacy[k].token <= held[<<k, legacy[k].platform>>]
  /\ \A k \in DOMAIN bare : bare[k] <= held[<<k, "ios">>]

Reports ==
  \A k \in Keys, p \in Platforms :
    /\ \A t \in Tokens : <<k, p, t>> \in reported => t < held[<<k, p>>]
    /\ <<k, p>> \in DOMAIN info =>
         /\ info[<<k, p>>] = NoToken => \E t \in Tokens : <<k, p, t>> \in reported
         /\ <<k, p, info[<<k, p>>]>> \notin reported

Withdrawn ==
  \A r \in Requests :
    /\ \A q \in before[r] : req[q].step = "done"
    /\ req[r].step = "done" /\ req[r].copy = "removed" =>
         \A q \in before[r] \cap history :
           ~ (req[q].key = req[r].key /\ req[q].id = req[r].id)

PushInv ==
  /\ Typed /\ Synced /\ Behind /\ Reports /\ Withdrawn
  /\ \A r \in Requests : Sound(req[r]) /\ Newest(req[r], held)

LEMMA FoundFacts ==
  ASSUME NEW f \in Found
  PROVE  DOMAIN f \subseteq Platforms /\ \A p \in DOMAIN f : f[p] \in Tokens
BY DEF Found

LEMMA VerdictFacts ==
  ASSUME NEW f \in Verdicts
  PROVE  DOMAIN f \subseteq Platforms /\ \A p \in DOMAIN f : f[p] \in Ends
BY DEF Verdicts

LEMMA NothingFacts == Nothing \in Found /\ Nothing \in Verdicts /\ DOMAIN Nothing = {}
<1>1. DOMAIN Nothing = {} /\ Nothing \in [{} -> Tokens]
      /\ Nothing \in [{} -> Ends]
  BY DEF Nothing
<1> QED
  BY <1>1 DEF Found, Verdicts

LEMMA WithoutCall ==
  ASSUME NEW f \in Verdicts, NEW p \in Platforms
  PROVE  /\ Without(f, p) \in Verdicts /\ DOMAIN Without(f, p) = DOMAIN f \ {p}
         /\ \A q \in DOMAIN f \ {p} : Without(f, p)[q] = f[q]
<1>1. /\ DOMAIN Without(f, p) = DOMAIN f \ {p}
      /\ \A q \in DOMAIN f \ {p} : Without(f, p)[q] = f[q]
      /\ Without(f, p) \in [DOMAIN f \ {p} -> Ends]
  BY VerdictFacts DEF Without
<1>2. DOMAIN f \ {p} \in SUBSET Platforms
  BY VerdictFacts
<1> QED
  BY <1>1, <1>2 DEF Verdicts

LEMMA WithCall ==
  ASSUME NEW f \in Verdicts, NEW p \in Platforms, NEW v \in Ends
  PROVE  /\ With(f, p, v) \in Verdicts /\ DOMAIN With(f, p, v) = DOMAIN f \cup {p}
         /\ With(f, p, v)[p] = v
         /\ \A q \in DOMAIN f \ {p} : With(f, p, v)[q] = f[q]
<1>1. /\ DOMAIN With(f, p, v) = DOMAIN f \cup {p} /\ With(f, p, v)[p] = v
      /\ \A q \in DOMAIN f \ {p} : With(f, p, v)[q] = f[q]
      /\ With(f, p, v) \in [DOMAIN f \cup {p} -> Ends]
  BY VerdictFacts DEF With
<1>2. DOMAIN f \cup {p} \in SUBSET Platforms
  BY VerdictFacts
<1> QED
  BY <1>1, <1>2 DEF Verdicts

LEMMA RegistryStays ==
  ASSUME Typed, Synced, Behind, Reports, UNCHANGED <<registry, held, reported>>
  PROVE  RegistryTypeOK' /\ Synced' /\ Behind' /\ Reports'
<1>1. UNCHANGED <<info, legacy, bare, held, reported>>
  BY DEF registry
<1> QED
  BY <1>1 DEF Typed, RegistryTypeOK, Synced, Behind, Reports

\* A request takes a step, which the others do not see.
LEMMA RequestSteps ==
  ASSUME PushInv, NEW r \in Requests, NEW x \in Request, req' = [req EXCEPT ![r] = x],
         Sound(x), Newest(x, held), held' = held, before' = before,
         history' \subseteq history \cup {r}, req[r].step # "done",
         x.step = "done" /\ x.copy = "removed" =>
           \A q \in before[r] \cap history' : ~ (req[q].key = x.key /\ req[q].id = x.id)
  PROVE  /\ req' \in [Requests -> Request] /\ history' \subseteq Requests
         /\ Withdrawn' /\ (\A q \in Requests : Sound(req[q]) /\ Newest(req[q], held))'
<1>1. /\ req \in [Requests -> Request] /\ before \in [Requests -> SUBSET Requests]
      /\ history \subseteq Requests /\ Withdrawn
      /\ \A q \in Requests : Sound(req[q]) /\ Newest(req[q], held)
  BY DEF PushInv, Typed
<1>2. /\ req' \in [Requests -> Request] /\ req'[r] = x
      /\ \A q \in Requests \ {r} : req'[q] = req[q]
  BY <1>1
<1>3. Withdrawn'
  <2>1. ASSUME NEW q \in Requests, NEW o \in before'[q]
        PROVE  o # r /\ req'[o] = req[o] /\ req'[o].step = "done" /\ o \in Requests
    BY <1>1, <1>2, <2>1 DEF Withdrawn
  <2>2. ASSUME NEW q \in Requests, req'[q].step = "done", req'[q].copy = "removed",
               NEW o \in before'[q] \cap history'
        PROVE  ~ (req'[o].key = req'[q].key /\ req'[o].id = req'[q].id)
    <3>1. req'[o] = req[o] /\ o \in before[q] \cap history
      BY <2>1, <2>2
    <3>2. CASE q = r
      BY <1>2, <2>2, <3>1, <3>2
    <3>3. CASE q # r
      BY <1>1, <1>2, <2>2, <3>1, <3>3 DEF Withdrawn
    <3> QED
      BY <3>2, <3>3
  <2> QED
    BY <2>1, <2>2 DEF Withdrawn
<1>4. \A q \in Requests : Sound(req'[q]) /\ Newest(req'[q], held')
  BY <1>1, <1>2
<1>5. (\A q \in Requests : Sound(req[q]) /\ Newest(req[q], held))'
  BY <1>4
<1> QED
  BY <1>1, <1>2, <1>3, <1>5

LEMMA StepKeeps ==
  ASSUME PushInv, NEW r \in Requests, NEW x \in Request, req' = [req EXCEPT ![r] = x],
         Sound(x), Newest(x, held), UNCHANGED <<registry, held, reported, before>>,
         history' \subseteq history \cup {r}, req[r].step # "done",
         x.step = "done" /\ x.copy = "removed" =>
           \A q \in before[r] \cap history' : ~ (req[q].key = x.key /\ req[q].id = x.id)
  PROVE  PushInv'
<1>1. RegistryTypeOK' /\ Synced' /\ Behind' /\ Reports'
  BY RegistryStays DEF PushInv
<1>2. /\ req' \in [Requests -> Request] /\ history' \subseteq Requests
      /\ Withdrawn' /\ (\A q \in Requests : Sound(req[q]) /\ Newest(req[q], held))'
  BY RequestSteps
<1>3. Typed'
  BY <1>1, <1>2 DEF PushInv, Typed
<1> QED
  BY <1>1, <1>2, <1>3 DEF PushInv

LEMMA NewFacts ==
  /\ NewRequest \in Request /\ NewRequest.step = "new" /\ NewRequest.key \in Keys
  /\ NewRequest.delete = FALSE /\ NewRequest.kind = "plain" /\ NewRequest.copy = "none"
  /\ NewRequest.code = 0 /\ NewRequest.id = NoId /\ NewRequest.targets = Nothing
  /\ NewRequest.calls = Nothing /\ NewRequest.todo = {} /\ NewRequest.ok = {}
  /\ NewRequest.failed = {}
<1>1. (CHOOSE k \in Keys : TRUE) \in Keys
  BY PushAssumption
<1>2. "new" \in Steps /\ "plain" \in AllKinds /\ "none" \in Copies /\ 0 \in Codes
  BY DEF Steps, AllKinds, Copies, Codes
<1> QED
  BY <1>1, <1>2, NothingFacts DEF NewRequest, Request

LEMMA RecordKeeps ==
  ASSUME PushInv, NEW r \in Requests, Record(r)
  PROVE  PushInv'
<1>1. /\ req[r] \in Request /\ Sound(req[r]) /\ Newest(req[r], held)
      /\ req \in [Requests -> Request]
  BY DEF PushInv, Typed
<1>2. /\ req[r].step = "record" /\ UNCHANGED <<registry, held, reported, before>>
  BY DEF Record
<1>3. ASSUME NEW c \in {"kept", "lost"},
             req' = [req EXCEPT ![r].step = "deliver", ![r].copy = c],
             history' \subseteq history \cup {r}
      PROVE  PushInv'
  <2> DEFINE x == [req[r] EXCEPT !.step = "deliver", !.copy = c]
  <2>1. req' = [req EXCEPT ![r] = x]
    BY <1>1, <1>3
  <2>2. /\ x \in Request /\ x.step = "deliver" /\ x.copy = c /\ x.code = req[r].code
        /\ x.delete = req[r].delete /\ x.kind = req[r].kind /\ x.id = req[r].id
        /\ x.key = req[r].key /\ x.targets = req[r].targets /\ x.todo = req[r].todo
        /\ x.calls = req[r].calls /\ x.ok = req[r].ok /\ x.failed = req[r].failed
    <3>1. "deliver" \in Steps /\ c \in Copies
      BY DEF Steps, Copies
    <3> QED
      BY <1>1, <3>1 DEF Request
  <2> HIDE DEF x
  <2>3. Sound(x) /\ Newest(x, held)
    BY <1>1, <1>2, <2>2 DEF Sound, Booked, Newest
  <2> QED
    BY <1>2, <1>3, <2>1, <2>2, <2>3, StepKeeps
<1>4. ASSUME ~ ShouldPublishHistory(r), req' = [req EXCEPT ![r].step = "deliver"],
             history' = history
      PROVE  PushInv'
  <2> DEFINE x == [req[r] EXCEPT !.step = "deliver"]
  <2>1. req' = [req EXCEPT ![r] = x]
    BY <1>1, <1>4
  <2>2. /\ x \in Request /\ x.step = "deliver" /\ x.copy = req[r].copy /\ x.code = req[r].code
        /\ x.delete = req[r].delete /\ x.kind = req[r].kind /\ x.id = req[r].id
        /\ x.key = req[r].key /\ x.targets = req[r].targets /\ x.todo = req[r].todo
        /\ x.calls = req[r].calls /\ x.ok = req[r].ok /\ x.failed = req[r].failed
    BY <1>1 DEF Request, Steps
  <2> HIDE DEF x
  <2>3. ~ (x.kind = "passive" /\ "harmony" \in DOMAIN x.targets)
    BY <1>4, <2>2 DEF ShouldPublishHistory
  <2>4. Sound(x) /\ Newest(x, held)
    BY <1>1, <1>2, <2>2, <2>3 DEF Sound, Booked, Newest
  <2> QED
    BY <1>2, <1>4, <2>1, <2>2, <2>4, StepKeeps
<1> QED
  BY <1>3, <1>4 DEF Record

\* A target moves from todo, or from the calls, to where its delivery ended.
LEMMA DeliveredSound ==
  ASSUME NEW r \in Requests, req[r] \in Request, Sound(req[r]), Newest(req[r], held),
         req[r].step = "deliver",
         NEW p \in Platforms, NEW end \in Ends,
         p \in req[r].todo \/ p \in DOMAIN req[r].calls,
         p = "harmony" /\ Passive(r) => end = "error" \/ (end = "ok" /\ req[r].copy = "kept")
  PROVE  /\ Delivered(r, p, end) \in Request /\ Sound(Delivered(r, p, end))
         /\ Newest(Delivered(r, p, end), held) /\ Delivered(r, p, end).step = "deliver"
<1> DEFINE x == Delivered(r, p, end)
<1>1. /\ Without(req[r].calls, p) \in Verdicts
      /\ DOMAIN Without(req[r].calls, p) = DOMAIN req[r].calls \ {p}
      /\ \A q \in DOMAIN req[r].calls \ {p} : Without(req[r].calls, p)[q] = req[r].calls[q]
  BY WithoutCall DEF Request
<1>2. /\ x \in Request /\ x.step = "deliver" /\ x.copy = req[r].copy /\ x.code = req[r].code
      /\ x.delete = req[r].delete /\ x.kind = req[r].kind /\ x.id = req[r].id
      /\ x.key = req[r].key /\ x.targets = req[r].targets /\ x.todo = req[r].todo \ {p}
      /\ x.calls = Without(req[r].calls, p)
      /\ x.ok = IF end = "ok" THEN req[r].ok \cup {p} ELSE req[r].ok
      /\ x.failed = IF end = "ok" THEN req[r].failed ELSE req[r].failed \cup {p}
  <2> DEFINE oks == IF end = "ok" THEN req[r].ok \cup {p} ELSE req[r].ok
             fails == IF end = "ok" THEN req[r].failed ELSE req[r].failed \cup {p}
             left == req[r].todo \ {p}
             calls == Without(req[r].calls, p)
  <2>1. oks \in SUBSET Platforms /\ fails \in SUBSET Platforms /\ left \in SUBSET Platforms
        /\ calls \in Verdicts
    BY <1>1 DEF Request
  <2>2. x = [req[r] EXCEPT !.todo = left, !.calls = calls, !.ok = oks, !.failed = fails]
    BY DEF Delivered
  <2> HIDE DEF oks, fails, left, calls, x
  <2>3. /\ x \in Request /\ x.step = req[r].step /\ x.copy = req[r].copy
        /\ x.code = req[r].code /\ x.delete = req[r].delete /\ x.kind = req[r].kind
        /\ x.id = req[r].id /\ x.key = req[r].key /\ x.targets = req[r].targets
        /\ x.todo = left /\ x.calls = calls /\ x.ok = oks /\ x.failed = fails
    BY <2>1, <2>2 DEF Request
  <2> QED
    BY <2>3 DEF oks, fails, left, calls
<1> HIDE DEF x
<1>3. Booked(req[r])
  BY DEF Sound
<1>4. Booked(x)
  <2>1. CASE end = "ok"
    BY <1>1, <1>2, <1>3, <2>1 DEF Booked
  <2>2. CASE end # "ok"
    BY <1>1, <1>2, <1>3, <2>2 DEF Booked
  <2> QED
    BY <2>1, <2>2
<1>5. ASSUME x.kind = "passive", "harmony" \in DOMAIN x.targets
      PROVE  /\ x.copy \in {"kept", "lost"} /\ "harmony" \notin DOMAIN x.calls
             /\ "harmony" \in x.ok => x.copy = "kept"
  <2>1. Passive(r)
    BY <1>2, <1>5 DEF Passive
  <2>2. /\ req[r].copy \in {"kept", "lost"} /\ "harmony" \notin DOMAIN req[r].calls
        /\ "harmony" \in req[r].ok => req[r].copy = "kept"
    BY <2>1 DEF Sound, Passive
  <2> QED
    BY <1>1, <1>2, <2>1, <2>2
<1>6. Sound(x)
  BY <1>2, <1>4, <1>5 DEF Sound
<1>7. Newest(x, held)
  BY <1>1, <1>2 DEF Newest
<1> QED
  BY <1>2, <1>6, <1>7 DEF x

LEMMA DeliverPassiveKeeps ==
  ASSUME PushInv, NEW r \in Requests, DeliverPassive(r)
  PROVE  PushInv'
<1>1. /\ req[r] \in Request /\ Sound(req[r]) /\ Newest(req[r], held)
      /\ req \in [Requests -> Request]
  BY DEF PushInv, Typed
<1> DEFINE end == IF req[r].copy = "lost" THEN "error" ELSE "ok"
<1>2. /\ req[r].step = "deliver" /\ Passive(r) /\ "harmony" \in req[r].todo
      /\ req' = [req EXCEPT ![r] = Delivered(r, "harmony", end)]
      /\ UNCHANGED <<registry, held, history, reported, before>>
  BY DEF DeliverPassive
<1>3. req[r].copy \in {"kept", "lost"}
  BY <1>1, <1>2 DEF Sound, Passive
<1>4. "harmony" \in Platforms /\ end \in Ends
      /\ (end = "error" \/ (end = "ok" /\ req[r].copy = "kept"))
  BY <1>3 DEF Platforms, Ends
<1> HIDE DEF end
<1>5. /\ Delivered(r, "harmony", end) \in Request /\ Sound(Delivered(r, "harmony", end))
      /\ Newest(Delivered(r, "harmony", end), held)
      /\ Delivered(r, "harmony", end).step = "deliver"
  BY <1>1, <1>2, <1>4, DeliveredSound
<1> QED
  BY <1>2, <1>5, StepKeeps

LEMMA CallKeeps ==
  ASSUME PushInv, NEW r \in Requests, NEW p \in Platforms, Call(r, p)
  PROVE  PushInv'
<1>1. /\ req[r] \in Request /\ Sound(req[r]) /\ Newest(req[r], held)
      /\ req \in [Requests -> Request] /\ held \in [Keys \X Platforms -> Tokens]
  BY DEF PushInv, Typed
<1>2. PICK answer \in {IF req[r].targets[p] = held[<<req[r].key, p>>] THEN "ok" ELSE "dead",
                       "error"} :
        req' = [req EXCEPT ![r].todo = @ \ {p}, ![r].calls = With(@, p, answer)]
  BY DEF Call
<1>3. /\ req[r].step = "deliver" /\ p \in req[r].todo /\ ~ (p = "harmony" /\ Passive(r))
      /\ UNCHANGED <<registry, held, history, reported, before>>
  BY DEF Call, MayCall
<1>4. answer \in Ends /\ (answer = "dead" => req[r].targets[p] # held[<<req[r].key, p>>])
  BY DEF Ends
<1> DEFINE x == [req[r] EXCEPT !.todo = @ \ {p}, !.calls = With(@, p, answer)]
<1>5. req' = [req EXCEPT ![r] = x]
  BY <1>1, <1>2
<1>6. /\ With(req[r].calls, p, answer) \in Verdicts
      /\ DOMAIN With(req[r].calls, p, answer) = DOMAIN req[r].calls \cup {p}
      /\ With(req[r].calls, p, answer)[p] = answer
      /\ \A q \in DOMAIN req[r].calls \ {p} :
           With(req[r].calls, p, answer)[q] = req[r].calls[q]
  <2>1. req[r].calls \in Verdicts
    BY <1>1 DEF Request
  <2>2. PICK calls \in Verdicts : calls = req[r].calls
    BY <2>1
  <2>3. PICK end \in Ends : end = answer
    BY <1>4
  <2>4. With(calls, p, end) \in Verdicts
    BY WithCall
  <2>5. DOMAIN With(calls, p, end) = DOMAIN calls \cup {p}
    BY DEF With
  <2>6. /\ With(calls, p, end)[p] = end
        /\ \A q \in DOMAIN calls \ {p} : With(calls, p, end)[q] = calls[q]
    BY DEF With
  <2> QED
    BY <2>2, <2>3, <2>4, <2>5, <2>6
<1>7. /\ x \in Request /\ x.step = "deliver" /\ x.copy = req[r].copy /\ x.code = req[r].code
      /\ x.delete = req[r].delete /\ x.kind = req[r].kind /\ x.id = req[r].id
      /\ x.key = req[r].key /\ x.targets = req[r].targets /\ x.todo = req[r].todo \ {p}
      /\ x.calls = With(req[r].calls, p, answer) /\ x.ok = req[r].ok
      /\ x.failed = req[r].failed
  <2> DEFINE left == req[r].todo \ {p}
             calls == With(req[r].calls, p, answer)
  <2>1. left \in SUBSET Platforms /\ calls \in Verdicts
    BY <1>1, <1>6 DEF Request
  <2>2. x = [req[r] EXCEPT !.todo = left, !.calls = calls]
    OBVIOUS
  <2> HIDE DEF left, calls, x
  <2>3. /\ x \in Request /\ x.step = req[r].step /\ x.copy = req[r].copy
        /\ x.code = req[r].code /\ x.delete = req[r].delete /\ x.kind = req[r].kind
        /\ x.id = req[r].id /\ x.key = req[r].key /\ x.targets = req[r].targets
        /\ x.todo = left /\ x.calls = calls /\ x.ok = req[r].ok /\ x.failed = req[r].failed
    BY <1>1, <2>1, <2>2 DEF Request
  <2> QED
    BY <1>3, <2>3 DEF left, calls
<1> HIDE DEF x
<1>8. Booked(x)
  BY <1>1, <1>3, <1>6, <1>7 DEF Sound, Booked
<1>9. Sound(x)
  BY <1>1, <1>3, <1>6, <1>7, <1>8 DEF Sound, Passive
<1>10. Newest(x, held)
  <2>1. DOMAIN req[r].targets \subseteq Platforms
        /\ \A q \in DOMAIN req[r].targets : req[r].targets[q] \in Tokens
    BY <1>1, FoundFacts DEF Request
  <2>2. \A q \in DOMAIN req[r].targets :
          /\ req[r].targets[q] \in Nat /\ held[<<req[r].key, q>>] \in Nat
          /\ req[r].targets[q] <= held[<<req[r].key, q>>]
    BY <1>1, <1>3, <2>1, RegistryAssumption DEF Newest, Request
  <2>3. \A q \in DOMAIN req[r].targets \ {p} :
          q \in DOMAIN x.calls /\ x.calls[q] = "dead"
            => req[r].targets[q] < held[<<req[r].key, q>>]
    BY <1>1, <1>3, <1>6, <1>7 DEF Newest
  <2>4. p \in DOMAIN req[r].targets /\ answer = "dead"
          => req[r].targets[p] < held[<<req[r].key, p>>]
    BY <1>4, <2>2
  <2> QED
    BY <1>6, <1>7, <2>2, <2>3, <2>4 DEF Newest
<1> QED
  BY <1>3, <1>5, <1>7, <1>9, <1>10, StepKeeps

\* The answer of a request, which forgets what only its delivery needed.
LEMMA AnsweredFacts ==
  ASSUME NEW r \in Requests, req[r] \in Request, NEW c \in Copies
  PROVE  /\ AnsweredWith(r, c) \in Request /\ AnsweredWith(r, c).step = "done"
         /\ AnsweredWith(r, c).copy = c /\ AnsweredWith(r, c).code = Status(r)
         /\ AnsweredWith(r, c).key = req[r].key /\ AnsweredWith(r, c).id = req[r].id
         /\ Sound(AnsweredWith(r, c)) /\ Newest(AnsweredWith(r, c), held)
<1> DEFINE x == AnsweredWith(r, c)
<1>1. /\ NewRequest \in Request /\ NewRequest.delete = FALSE /\ NewRequest.kind = "plain"
      /\ NewRequest.calls = Nothing
  BY NewFacts
<1>2. "done" \in Steps /\ Status(r) \in Codes /\ Status(r) # 0
  BY DEF Steps, Codes, Status
<1>3. x = [NewRequest EXCEPT !.step = "done", !.key = req[r].key, !.id = req[r].id,
                             !.copy = c, !.code = Status(r)]
  BY DEF AnsweredWith
<1> HIDE DEF x
<1>4. /\ x \in Request /\ x.step = "done" /\ x.copy = c /\ x.code = Status(r)
      /\ x.key = req[r].key /\ x.id = req[r].id /\ x.delete = FALSE /\ x.kind = "plain"
      /\ x.calls = Nothing
  BY <1>1, <1>2, <1>3 DEF Request
<1>5. Sound(x) /\ Newest(x, held)
  BY <1>2, <1>4, NothingFacts DEF Sound, Newest
<1> QED
  BY <1>4, <1>5 DEF x

LEMMA FinishKeeps ==
  ASSUME PushInv, NEW r \in Requests, Finish(r)
  PROVE  PushInv'
<1>1. /\ req[r] \in Request /\ Sound(req[r]) /\ Newest(req[r], held)
      /\ req \in [Requests -> Request]
  BY DEF PushInv, Typed
<1>2. /\ req[r].step = "deliver" /\ UNCHANGED <<registry, held, history, reported, before>>
      /\ req[r].todo = {} /\ DOMAIN req[r].calls = {}
  BY DEF Finish, AllReturned
<1>3. CASE req[r].delete
  <2> DEFINE x == [req[r] EXCEPT !.step = "cleanup"]
  <2>1. req' = [req EXCEPT ![r] = x]
    BY <1>1, <1>3 DEF Finish
  <2>2. /\ x \in Request /\ x.step = "cleanup" /\ x.copy = req[r].copy /\ x.code = req[r].code
        /\ x.delete = req[r].delete /\ x.kind = req[r].kind /\ x.id = req[r].id
        /\ x.key = req[r].key /\ x.targets = req[r].targets /\ x.todo = req[r].todo
        /\ x.calls = req[r].calls /\ x.ok = req[r].ok /\ x.failed = req[r].failed
    <3>1. "cleanup" \in Steps
      BY DEF Steps
    <3> QED
      BY <1>1, <3>1 DEF Request
  <2> HIDE DEF x
  <2>3. Sound(x) /\ Newest(x, held)
    BY <1>1, <1>2, <1>3, <2>2 DEF Sound, Booked, Newest
  <2> QED
    BY <1>2, <2>1, <2>2, <2>3, StepKeeps
<1>4. CASE ~ req[r].delete
  <2>1. req' = [req EXCEPT ![r] = AnsweredWith(r, "none")]
    BY <1>4 DEF Finish
  <2>2. "none" \in Copies
    BY DEF Copies
  <2> QED
    BY <1>1, <1>2, <2>1, <2>2, AnsweredFacts, StepKeeps
<1> QED
  BY <1>3, <1>4

LEMMA CleanUpKeeps ==
  ASSUME PushInv, NEW r \in Requests, CleanUp(r)
  PROVE  PushInv'
<1>1. /\ req[r] \in Request /\ Sound(req[r]) /\ req[r].step = "cleanup"
      /\ UNCHANGED <<registry, held, reported, before>>
  BY DEF PushInv, Typed, CleanUp
<1>2. req[r].id # NoId
  BY <1>1 DEF Sound
<1>3. "lost" \in Copies /\ "removed" \in Copies
  BY DEF Copies
<1>4. CASE history' = history \ SameId(r) /\ req' = [req EXCEPT ![r] = AnsweredWith(r, "removed")]
  <2>1. \A q \in before[r] \cap history' : ~ (req[q].key = req[r].key /\ req[q].id = req[r].id)
    BY <1>2, <1>4 DEF SameId
  <2> DEFINE x == AnsweredWith(r, "removed")
  <2>2. /\ x \in Request /\ x.key = req[r].key /\ x.id = req[r].id
        /\ Sound(x) /\ Newest(x, held) /\ req' = [req EXCEPT ![r] = x]
    BY <1>1, <1>3, <1>4, AnsweredFacts
  <2> HIDE DEF x
  <2>3. \A q \in before[r] \cap history' : ~ (req[q].key = x.key /\ req[q].id = x.id)
    BY <2>1, <2>2
  <2>4. history' \subseteq history \cup {r} /\ req[r].step # "done"
    BY <1>1, <1>4
  <2> QED
    BY <1>1, <2>2, <2>3, <2>4, StepKeeps
<1>5. CASE history' = history /\ req' = [req EXCEPT ![r] = AnsweredWith(r, "lost")]
  BY <1>1, <1>3, <1>5, AnsweredFacts, StepKeeps
<1> QED
  BY <1>4, <1>5 DEF CleanUp, Removed

(***************************************************************************)
(* The devices.                                                            *)
(***************************************************************************)
\* While the requests stay as they are, tokens may only grow.
LEMMA RequestsStay ==
  ASSUME PushInv, UNCHANGED <<req, history, before>>,
         held' \in [Keys \X Platforms -> Tokens], \A kp \in Keys \X Platforms : held[kp] <= held'[kp]
  PROVE  Withdrawn' /\ (\A r \in Requests : Sound(req[r]) /\ Newest(req[r], held))'
<1>1. Withdrawn'
  BY DEF PushInv, Withdrawn
<1>2. ASSUME NEW r \in Requests PROVE Newest(req[r], held')
  <2>1. req[r] \in Request /\ Newest(req[r], held) /\ held \in [Keys \X Platforms -> Tokens]
    BY DEF PushInv, Typed
  <2>2. /\ req[r].targets \in Found /\ req[r].key \in Keys
    BY <2>1 DEF Request
  <2>3. \A p \in DOMAIN req[r].targets : p \in Platforms /\ req[r].targets[p] \in Nat
    BY <2>2, FoundFacts, RegistryAssumption
  <2>4. \A p \in DOMAIN req[r].targets :
          /\ held[<<req[r].key, p>>] \in Nat /\ held'[<<req[r].key, p>>] \in Nat
          /\ held[<<req[r].key, p>>] <= held'[<<req[r].key, p>>]
    BY <2>1, <2>2, <2>3, RegistryAssumption
  <2> QED
    BY <2>1, <2>3, <2>4 DEF Newest
<1>3. \A r \in Requests : Sound(req'[r]) /\ Newest(req'[r], held')
  BY <1>2 DEF PushInv
<1>4. (\A r \in Requests : Sound(req[r]) /\ Newest(req[r], held))'
  BY <1>3
<1> QED
  BY <1>1, <1>4

LEMMA RenewKeeps ==
  ASSUME PushInv, NEW k \in Keys, NEW p \in Platforms, Renew(k, p)
  PROVE  PushInv'
<1>1. /\ Typed /\ Synced /\ Behind /\ Reports /\ RegistryTypeOK
      /\ held \in [Keys \X Platforms -> Tokens] /\ reported \subseteq Keys \X Platforms \X Tokens
  BY DEF PushInv, Typed
<1>2. /\ held' = [held EXCEPT ![<<k, p>>] = @ + 1] /\ held[<<k, p>>] + 1 \in Tokens
      /\ UNCHANGED <<info, legacy, bare, req, history, reported, before>>
  BY DEF Renew, registry
<1>3. \A kp \in Keys \X Platforms : held[kp] \in Nat
  BY <1>1, RegistryAssumption
<1>4. /\ held' \in [Keys \X Platforms -> Tokens]
      /\ \A kp \in Keys \X Platforms : held[kp] <= held'[kp] /\ held'[kp] \in Nat
  BY <1>1, <1>2, <1>3
<1>5. Typed'
  BY <1>1, <1>2, <1>4 DEF PushInv, Typed, RegistryTypeOK
<1>6. Synced'
  BY <1>1, <1>2 DEF Synced
<1>7. Behind'
  <2>1. ASSUME NEW j \in Keys, NEW q \in Platforms, <<j, q>> \in DOMAIN info
        PROVE  info[<<j, q>>] <= held'[<<j, q>>]
    <3>1. info[<<j, q>>] \in Nat /\ info[<<j, q>>] <= held[<<j, q>>]
      BY <1>1, <2>1, RegistryAssumption DEF RegistryTypeOK, Behind, NoToken
    <3> QED
      BY <1>3, <1>4, <3>1
  <2>2. ASSUME NEW j \in DOMAIN legacy
        PROVE  legacy[j].token <= held'[<<j, legacy[j].platform>>]
    <3>1. /\ legacy[j] \in [platform : Platforms, token : Tokens] /\ j \in Keys
          /\ legacy[j].token <= held[<<j, legacy[j].platform>>]
      BY <1>1 DEF RegistryTypeOK, Behind
    <3>2. legacy[j].token \in Nat /\ legacy[j].platform \in Platforms
      BY <3>1, RegistryAssumption
    <3> QED
      BY <1>3, <1>4, <3>1, <3>2
  <2>3. ASSUME NEW j \in DOMAIN bare
        PROVE  bare[j] <= held'[<<j, "ios">>]
    <3>1. bare[j] \in Nat /\ bare[j] <= held[<<j, "ios">>] /\ j \in Keys /\ "ios" \in Platforms
      BY <1>1, RegistryAssumption DEF RegistryTypeOK, Behind, NoToken, Platforms
    <3> QED
      BY <1>3, <1>4, <3>1
  <2> QED
    BY <1>2, <2>1, <2>2, <2>3 DEF Behind
<1>8. Reports'
  <2>1. ASSUME NEW j \in Keys, NEW q \in Platforms, NEW t \in Tokens, <<j, q, t>> \in reported
        PROVE  t < held'[<<j, q>>]
    <3>1. t \in Nat /\ t < held[<<j, q>>]
      BY <1>1, <2>1, RegistryAssumption DEF Reports
    <3> QED
      BY <1>3, <1>4, <3>1
  <2> QED
    BY <1>1, <1>2, <2>1 DEF Reports
<1>9. Withdrawn' /\ (\A r \in Requests : Sound(req[r]) /\ Newest(req[r], held))'
  BY <1>2, <1>4, RequestsStay
<1> QED
  BY <1>5, <1>6, <1>7, <1>8, <1>9 DEF PushInv

LEMMA RegisterKeeps ==
  ASSUME PushInv, NEW k \in Keys, NEW p \in Platforms, Register(k, p)
  PROVE  PushInv'
<1> DEFINE t == held[<<k, p>>]
<1>1. /\ Typed /\ Synced /\ Behind /\ Reports /\ RegistryTypeOK
      /\ held \in [Keys \X Platforms -> Tokens] /\ reported \subseteq Keys \X Platforms \X Tokens
  BY DEF PushInv, Typed
<1>2. /\ SaveDeviceInfo(k, p, t) /\ t \in Tokens
      /\ UNCHANGED <<held, req, history, reported, before>>
  BY <1>1 DEF Register
<1>3. t \in Nat /\ t # NoToken
  BY <1>2, RegistryAssumption
<1> HIDE DEF t
<1>4. Saved(k, p, t) /\ RegistryTypeOK' /\ Synced'
  BY <1>1, <1>2, SaveFacts, SaveKeepsSynced
<1>5. Typed'
  BY <1>2, <1>4 DEF PushInv, Typed
<1>6. t <= t
  BY <1>3
<1>7. Behind'
  <2>1. ASSUME NEW j \in Keys, NEW q \in Platforms, <<j, q>> \in DOMAIN info'
        PROVE  info'[<<j, q>>] <= held[<<j, q>>]
    <3>1. CASE j = k /\ q = p
      BY <1>4, <1>6, <3>1 DEF Saved, t
    <3>2. CASE ~ (j = k /\ q = p)
      BY <1>1, <1>4, <2>1, <3>2 DEF Saved, Behind
    <3> QED
      BY <3>1, <3>2
  <2>2. ASSUME NEW j \in DOMAIN legacy'
        PROVE  legacy'[j].token <= held[<<j, legacy'[j].platform>>]
    BY <1>1, <1>4 DEF Saved, Behind
  <2>3. ASSUME NEW j \in DOMAIN bare'
        PROVE  bare'[j] <= held[<<j, "ios">>]
    <3>1. CASE j = k /\ p = "ios"
      BY <1>4, <1>6, <3>1 DEF Saved, t
    <3>2. CASE ~ (j = k /\ p = "ios")
      BY <1>1, <1>4, <2>3, <3>2 DEF Saved, Behind
    <3> QED
      BY <3>1, <3>2
  <2> QED
    BY <1>2, <2>1, <2>2, <2>3 DEF Behind
<1>8. Reports'
  <2>1. ASSUME NEW j \in Keys, NEW q \in Platforms, <<j, q>> \in DOMAIN info'
        PROVE  /\ info'[<<j, q>>] = NoToken => \E o \in Tokens : <<j, q, o>> \in reported
               /\ <<j, q, info'[<<j, q>>]>> \notin reported
    <3>1. CASE j = k /\ q = p
      <4>1. info'[<<j, q>>] = t
        BY <1>4, <3>1 DEF Saved
      <4>2. <<k, p, t>> \in reported => t < held[<<k, p>>]
        BY <1>1, <1>2 DEF Reports
      <4> QED
        BY <1>3, <3>1, <4>1, <4>2 DEF t
    <3>2. CASE ~ (j = k /\ q = p)
      <4>1. <<j, q>> \in DOMAIN info /\ info'[<<j, q>>] = info[<<j, q>>]
        BY <1>4, <2>1, <3>2 DEF Saved
      <4> QED
        BY <1>1, <4>1 DEF Reports
    <3> QED
      BY <3>1, <3>2
  <2> QED
    BY <1>1, <1>2, <2>1 DEF Reports
<1>9. Withdrawn' /\ (\A r \in Requests : Sound(req[r]) /\ Newest(req[r], held))'
  <2>1. /\ held' \in [Keys \X Platforms -> Tokens]
        /\ \A kp \in Keys \X Platforms : held[kp] <= held'[kp]
    <3>1. \A kp \in Keys \X Platforms : held[kp] \in Nat
      BY <1>1, RegistryAssumption
    <3>2. \A kp \in Keys \X Platforms : held[kp] <= held[kp]
      BY <3>1
    <3> QED
      BY <1>1, <1>2, <3>2
  <2>2. UNCHANGED <<req, history, before>>
    BY <1>2
  <2> QED
    BY <2>1, <2>2, RequestsStay
<1> QED
  BY <1>4, <1>5, <1>7, <1>8, <1>9 DEF PushInv

(***************************************************************************)
(* A request that begins, and an answer that comes.                        *)
(***************************************************************************)
LEMMA TargetFacts ==
  ASSUME Typed, Synced, Behind, NEW k \in Keys, NEW only
  PROVE  /\ Targets(k, only) \in Found
         /\ \A p \in DOMAIN Targets(k, only) : Targets(k, only)[p] <= held[<<k, p>>]
<1>1. RegistryTypeOK /\ held \in [Keys \X Platforms -> Tokens]
  BY DEF Typed
<1>2. DevicesByKey(k) = Records(k)
  BY <1>1, ReadsRecords
<1>3. /\ DOMAIN Targets(k, only) \subseteq DOMAIN Records(k)
      /\ \A p \in DOMAIN Targets(k, only) :
           Targets(k, only)[p] = Records(k)[p] /\ Records(k)[p] # NoToken
      /\ Targets(k, only) = [p \in DOMAIN Targets(k, only) |-> Targets(k, only)[p]]
  BY <1>2 DEF Targets
<1>4. ASSUME NEW p \in DOMAIN Records(k)
      PROVE  /\ p \in Platforms /\ Records(k)[p] \in Tokens \cup {NoToken}
             /\ Records(k)[p] <= held[<<k, p>>]
  <2>1. p \in Platforms
    BY <1>1, RecordFacts
  <2>2. CASE p \in DOMAIN Current(k)
    <3>1. <<k, p>> \in DOMAIN info /\ Records(k)[p] = info[<<k, p>>]
      <4>1. Records(k)[p] = Current(k)[p]
        BY <1>1, <2>2, RecordFacts
      <4>2. <<k, p>> \in DOMAIN info /\ Current(k)[p] = info[<<k, p>>]
        BY <2>2 DEF Current
      <4> QED
        BY <4>1, <4>2
    <3>2. info[<<k, p>>] \in Tokens \cup {NoToken}
      BY <1>1, <3>1 DEF RegistryTypeOK
    <3>3. info[<<k, p>>] <= held[<<k, p>>]
      BY <1>1, <2>1, <3>1 DEF Behind
    <3> QED
      BY <2>1, <3>1, <3>2, <3>3
  <2>3. CASE p \notin DOMAIN Current(k) /\ p \in DOMAIN Older(k)
    <3>1. Records(k)[p] = Older(k)[p]
      BY <1>1, <2>3, RecordFacts
    <3>2. /\ k \in DOMAIN legacy /\ legacy[k].platform = p /\ Older(k)[p] = legacy[k].token
          /\ legacy[k].token \in Tokens
      BY <1>1, <2>3, FormatFacts
    <3> QED
      BY <2>1, <3>1, <3>2 DEF Behind
  <2>4. CASE p \notin DOMAIN Current(k) /\ p \notin DOMAIN Older(k)
    <3>1. Records(k)[p] = Oldest(k)[p] /\ p \in DOMAIN Oldest(k)
      BY <1>1, <2>4, RecordFacts
    <3>2. k \in DOMAIN bare /\ p = "ios" /\ Oldest(k)[p] = bare[k]
      BY <3>1 DEF Oldest, Nothing
    <3> QED
      BY <1>1, <2>1, <3>1, <3>2 DEF RegistryTypeOK, Behind
  <2> QED
    BY <2>2, <2>3, <2>4
<1>5. /\ DOMAIN Targets(k, only) \in SUBSET Platforms
      /\ \A p \in DOMAIN Targets(k, only) :
           Targets(k, only)[p] \in Tokens /\ Targets(k, only)[p] <= held[<<k, p>>]
  BY <1>3, <1>4
<1>6. Targets(k, only) \in [DOMAIN Targets(k, only) -> Tokens]
  BY <1>3, <1>5
<1> QED
  BY <1>5, <1>6 DEF Found

LEMMA RefusedFacts ==
  ASSUME NEW c \in Codes
  PROVE  LET no == [NewRequest EXCEPT !.step = "done", !.code = c]
         IN /\ no \in Request /\ no.step = "done" /\ no.code = c /\ no.copy = "none"
            /\ no.delete = FALSE /\ no.kind = "plain" /\ no.calls = Nothing
<1>1. /\ NewRequest \in Request /\ NewRequest.copy = "none" /\ NewRequest.delete = FALSE
      /\ NewRequest.kind = "plain" /\ NewRequest.calls = Nothing
  BY NewFacts
<1>2. "done" \in Steps
  BY DEF Steps
<1> QED
  BY <1>1, <1>2 DEF Request

LEMMA BeginKeeps ==
  ASSUME PushInv, NEW r \in Requests, NEW asked \in Request, NEW only,
         asked.delete => asked.kind = "plain", asked.code = 0, asked.calls = Nothing,
         asked.ok = {}, asked.failed = {}, asked.copy = "none", Begin(r, asked, only)
  PROVE  PushInv'
<1>0. PICK code \in Refusals(asked.key) :
        req' = [req EXCEPT ![r] =
                  IF DOMAIN Targets(asked.key, only) = {} \/ (asked.delete /\ asked.id = NoId)
                  THEN [NewRequest EXCEPT !.step = "done", !.code = code]
                  ELSE [asked EXCEPT !.step = IF asked.delete THEN "deliver" ELSE "record",
                                     !.targets = Targets(asked.key, only),
                                     !.todo = DOMAIN Targets(asked.key, only)]]
  BY DEF Begin
<1> DEFINE targets == Targets(asked.key, only)
           refused == DOMAIN targets = {} \/ (asked.delete /\ asked.id = NoId)
           step    == IF asked.delete THEN "deliver" ELSE "record"
           no      == [NewRequest EXCEPT !.step = "done", !.code = code]
           yes     == [asked EXCEPT !.step = step, !.targets = targets, !.todo = DOMAIN targets]
           x       == IF refused THEN no ELSE yes
<1>1. /\ Typed /\ Synced /\ Behind /\ Reports /\ Withdrawn
      /\ req \in [Requests -> Request] /\ before \in [Requests -> SUBSET Requests]
      /\ \A q \in Requests : Sound(req[q]) /\ Newest(req[q], held)
  BY DEF PushInv, Typed
<1>2. /\ req[r].step = "new" /\ req' = [req EXCEPT ![r] = x]
      /\ before' = [before EXCEPT ![r] = IF asked.delete /\ ~ refused THEN Ended ELSE {}]
      /\ UNCHANGED <<registry, held, history, reported>>
  BY <1>0 DEF Begin
<1>3. asked.key \in Keys
  BY DEF Request
<1>4. targets \in Found /\ \A p \in DOMAIN targets : targets[p] <= held[<<asked.key, p>>]
  BY <1>1, <1>3, TargetFacts
<1>5. DOMAIN targets \in SUBSET Platforms /\ \A p \in DOMAIN targets : targets[p] \in Tokens
  BY <1>4, FoundFacts
<1> HIDE DEF targets
<1>6. /\ no \in Request /\ no.step = "done" /\ no.code = code /\ no.copy = "none"
      /\ no.delete = FALSE /\ no.kind = "plain" /\ no.calls = Nothing /\ code # 0
  <2>1. code \in Codes /\ code # 0
    BY DEF Codes, Refusals
  <2> QED
    BY <2>1, RefusedFacts
<1>7. /\ yes \in Request /\ yes.step = step /\ yes.targets = targets
      /\ yes.todo = DOMAIN targets /\ yes.key = asked.key /\ yes.id = asked.id
      /\ yes.kind = asked.kind /\ yes.delete = asked.delete /\ yes.code = 0
      /\ yes.calls = Nothing /\ yes.ok = {} /\ yes.failed = {} /\ yes.copy = "none"
  <2>1. step \in Steps
    BY DEF Steps
  <2> HIDE DEF step
  <2> QED
    BY <1>4, <1>5, <2>1 DEF Request
<1> HIDE DEF no, yes
<1>8. Sound(no) /\ Newest(no, held)
  BY <1>6, NothingFacts DEF Sound, Newest
<1>9. ~ refused => Sound(yes) /\ Newest(yes, held)
  <2> SUFFICES ASSUME ~ refused PROVE Sound(yes) /\ Newest(yes, held)
    OBVIOUS
  <2>1. Booked(yes)
    BY <1>7, NothingFacts DEF Booked
  <2>2. asked.delete \in BOOLEAN
    BY DEF Request
  <2>3. Sound(yes)
    BY <1>7, <2>1, <2>2, NothingFacts DEF Sound
  <2>4. Newest(yes, held)
    BY <1>4, <1>7, NothingFacts DEF Newest
  <2> QED
    BY <2>3, <2>4
<1>10. /\ x \in Request /\ Sound(x) /\ Newest(x, held)
       /\ ~ (x.step = "done" /\ x.copy = "removed")
  BY <1>6, <1>7, <1>8, <1>9
<1>11. before'[r] \subseteq Ended /\ \A q \in Requests \ {r} : before'[q] = before[q]
  BY <1>1, <1>2
<1>12. before' \in [Requests -> SUBSET Requests]
  BY <1>1, <1>2 DEF Ended
<1> HIDE DEF x, refused
<1>13. /\ req' \in [Requests -> Request] /\ req'[r] = x
       /\ \A q \in Requests \ {r} : req'[q] = req[q]
  BY <1>1, <1>2, <1>10
<1>14. RegistryTypeOK' /\ Synced' /\ Behind' /\ Reports'
  BY <1>1, <1>2, RegistryStays
<1>15. Typed'
  BY <1>1, <1>2, <1>12, <1>13, <1>14 DEF Typed
<1>16. Withdrawn'
  <2>1. ASSUME NEW q \in Requests, NEW o \in before'[q]
        PROVE  o # r /\ req'[o] = req[o] /\ req'[o].step = "done" /\ o \in Requests
    <3>1. o \in Requests /\ req[o].step = "done"
      BY <1>1, <1>11, <1>12 DEF Withdrawn, Ended
    <3> QED
      BY <1>2, <1>13, <3>1
  <2>2. ASSUME NEW q \in Requests, req'[q].step = "done", req'[q].copy = "removed",
               NEW o \in before'[q] \cap history
        PROVE  ~ (req'[o].key = req'[q].key /\ req'[o].id = req'[q].id)
    <3>1. q # r /\ req'[q] = req[q] /\ before'[q] = before[q]
      BY <1>10, <1>11, <1>13, <2>2
    <3> QED
      BY <1>1, <2>1, <2>2, <3>1 DEF Withdrawn
  <2> QED
    BY <1>2, <2>1, <2>2 DEF Withdrawn
<1>17. \A q \in Requests : Sound(req'[q]) /\ Newest(req'[q], held')
  BY <1>1, <1>2, <1>10, <1>13 DEF registry
<1>18. (\A q \in Requests : Sound(req[q]) /\ Newest(req[q], held))'
  BY <1>17
<1> QED
  BY <1>14, <1>15, <1>16, <1>18 DEF PushInv

LEMMA PushKeeps ==
  ASSUME PushInv, NEW r \in Requests, Push(r)
  PROVE  PushInv'
<1>1. PICK k \in Keys, i \in Ids, kind \in Kinds, only \in Asked :
        Begin(r, [NewRequest EXCEPT !.key = k, !.id = i, !.kind = kind], only)
  BY DEF Push
<1> DEFINE asked == [NewRequest EXCEPT !.key = k, !.id = i, !.kind = kind]
<1>2. i \in Ids \cup {NoId} /\ kind \in AllKinds
  BY PushAssumption DEF AllKinds
<1>3. /\ asked \in Request /\ asked.delete = FALSE /\ asked.code = 0
      /\ asked.calls = Nothing /\ asked.ok = {} /\ asked.failed = {} /\ asked.copy = "none"
  BY <1>2, NewFacts DEF Request
<1> HIDE DEF asked
<1> QED
  BY <1>1, <1>3, BeginKeeps DEF asked

LEMMA PushDeleteKeeps ==
  ASSUME PushInv, NEW r \in Requests, PushDelete(r)
  PROVE  PushInv'
<1>1. PICK k \in Keys, i \in Ids \cup {NoId}, only \in Asked :
        Begin(r, [NewRequest EXCEPT !.key = k, !.id = i, !.delete = TRUE], only)
  BY DEF PushDelete
<1> DEFINE asked == [NewRequest EXCEPT !.key = k, !.id = i, !.delete = TRUE]
<1>2. /\ asked \in Request /\ asked.kind = "plain" /\ asked.code = 0
      /\ asked.calls = Nothing /\ asked.ok = {} /\ asked.failed = {} /\ asked.copy = "none"
  BY NewFacts DEF Request
<1> HIDE DEF asked
<1> QED
  BY <1>1, <1>2, BeginKeeps DEF asked

\* An answer comes: a token it calls dead is cleared, whatever is registered by now.
LEMMA ReturnKeeps ==
  ASSUME PushInv, NEW r \in Requests, NEW p \in Platforms, Return(r, p)
  PROVE  PushInv'
<1>1. /\ Typed /\ Synced /\ Behind /\ Reports /\ RegistryTypeOK
      /\ held \in [Keys \X Platforms -> Tokens] /\ reported \subseteq Keys \X Platforms \X Tokens
      /\ req[r] \in Request /\ Sound(req[r]) /\ Newest(req[r], held)
      /\ req \in [Requests -> Request]
  BY DEF PushInv, Typed
<1> DEFINE k == req[r].key
           t == req[r].targets[p]
           end == req[r].calls[p]
           x == Delivered(r, p, end)
<1>2. /\ p \in DOMAIN req[r].calls /\ req' = [req EXCEPT ![r] = x]
      /\ UNCHANGED <<held, history, before>> /\ ClearDead(r, p)
  BY DEF Return, Counted
<1>3. req[r].step = "deliver"
  BY <1>1, <1>2 DEF Sound
<1>4. /\ end \in Ends /\ k \in Keys /\ t \in Tokens
      /\ end = "dead" => t < held[<<k, p>>]
  <2>1. req[r].calls \in Verdicts /\ req[r].targets \in Found /\ k \in Keys
    BY <1>1 DEF Request
  <2>2. p \in DOMAIN req[r].targets
    BY <1>1, <1>2, <1>3 DEF Sound, Booked
  <2>3. end \in Ends
    BY <1>2, <2>1, VerdictFacts
  <2>4. t \in Tokens
    BY <2>1, <2>2, FoundFacts
  <2>5. end = "dead" => t < held[<<k, p>>]
    BY <1>1, <1>2, <1>3, <2>2 DEF Newest
  <2> QED
    BY <2>1, <2>3, <2>4, <2>5
<1>5. ~ (p = "harmony" /\ Passive(r))
  BY <1>1, <1>2, <1>3 DEF Sound, Passive
<1>6. x \in Request /\ Sound(x) /\ Newest(x, held) /\ x.step = "deliver"
  BY <1>1, <1>2, <1>3, <1>4, <1>5, DeliveredSound
<1>7. \/ end # "dead" /\ UNCHANGED <<registry, reported>>
      \/ /\ end = "dead" /\ ClearDeviceTokenByKeyAndPlatform(k, p)
         /\ reported' = reported \cup {<<k, p, t>>}
  BY <1>2 DEF ClearDead
<1> HIDE DEF k, t, end, x
<1>8. /\ req' \in [Requests -> Request] /\ history' \subseteq Requests
      /\ Withdrawn' /\ (\A q \in Requests : Sound(req[q]) /\ Newest(req[q], held))'
  BY <1>2, <1>3, <1>6, RequestSteps
<1>9. CASE UNCHANGED <<registry, reported>>
  <2>1. RegistryTypeOK' /\ Synced' /\ Behind' /\ Reports'
    BY <1>1, <1>2, <1>9, RegistryStays
  <2>2. Typed'
    BY <1>1, <1>2, <1>8, <1>9, <2>1 DEF Typed
  <2> QED
    BY <1>8, <2>1, <2>2 DEF PushInv
<1>10. CASE /\ end = "dead" /\ ClearDeviceTokenByKeyAndPlatform(k, p)
            /\ reported' = reported \cup {<<k, p, t>>}
  <2>1. Cleared(k, p) /\ RegistryTypeOK' /\ Synced'
    BY <1>1, <1>4, <1>10, ClearFacts, ClearKeepsSynced
  <2>2. reported' \subseteq Keys \X Platforms \X Tokens
    BY <1>1, <1>4, <1>10
  <2>3. Typed'
    BY <1>1, <1>2, <1>8, <2>1, <2>2 DEF Typed
  <2>4. \A kp \in Keys \X Platforms : held[kp] \in Nat /\ NoToken <= held[kp]
    <3>1. \A kp \in Keys \X Platforms : held[kp] \in Nat
      BY <1>1, RegistryAssumption
    <3> QED
      BY <3>1 DEF NoToken
  <2>5. Behind'
    <3>1. ASSUME NEW j \in Keys, NEW q \in Platforms, <<j, q>> \in DOMAIN info'
          PROVE  info'[<<j, q>>] <= held[<<j, q>>]
      <4>1. CASE j = k /\ q = p
        BY <2>1, <2>4, <3>1, <4>1 DEF Cleared
      <4>2. CASE ~ (j = k /\ q = p)
        BY <1>1, <2>1, <3>1, <4>2 DEF Cleared, Behind
      <4> QED
        BY <4>1, <4>2
    <3>2. ASSUME NEW j \in DOMAIN legacy'
          PROVE  legacy'[j].token <= held[<<j, legacy'[j].platform>>]
      BY <1>1, <2>1 DEF Cleared, Behind
    <3>3. ASSUME NEW j \in DOMAIN bare'
          PROVE  bare'[j] <= held[<<j, "ios">>]
      <4>1. CASE j = k /\ p = "ios" /\ <<k, p>> \in DOMAIN info
        BY <1>4, <2>1, <2>4, <4>1 DEF Cleared
      <4>2. CASE ~ (j = k /\ p = "ios" /\ <<k, p>> \in DOMAIN info)
        <5>1. j \in DOMAIN bare /\ bare'[j] = bare[j]
          BY <2>1, <3>3, <4>2 DEF Cleared
        <5> QED
          BY <1>1, <5>1 DEF Behind
      <4> QED
        BY <4>1, <4>2
    <3> QED
      BY <1>2, <3>1, <3>2, <3>3 DEF Behind
  <2>6. Reports'
    <3>1. ASSUME NEW j \in Keys, NEW q \in Platforms, NEW o \in Tokens,
                 <<j, q, o>> \in reported'
          PROVE  o < held[<<j, q>>]
      BY <1>1, <1>4, <1>10, <3>1 DEF Reports
    <3>2. ASSUME NEW j \in Keys, NEW q \in Platforms, <<j, q>> \in DOMAIN info'
          PROVE  /\ info'[<<j, q>>] = NoToken => \E o \in Tokens : <<j, q, o>> \in reported'
                 /\ <<j, q, info'[<<j, q>>]>> \notin reported'
      <4>1. CASE j = k /\ q = p
        <5>1. info'[<<j, q>>] = NoToken
          BY <2>1, <3>2, <4>1 DEF Cleared
        <5>2. NoToken \notin Tokens
          BY RegistryAssumption
        <5>3. <<j, q, NoToken>> \notin reported'
          BY <2>2, <5>2
        <5> QED
          BY <1>4, <1>10, <4>1, <5>1, <5>3
      <4>2. CASE ~ (j = k /\ q = p)
        <5>1. <<j, q>> \in DOMAIN info /\ info'[<<j, q>>] = info[<<j, q>>]
          BY <2>1, <3>2, <4>2 DEF Cleared
        <5>2. /\ info[<<j, q>>] = NoToken => \E o \in Tokens : <<j, q, o>> \in reported
              /\ <<j, q, info[<<j, q>>]>> \notin reported
          BY <1>1, <5>1 DEF Reports
        <5> QED
          BY <1>10, <4>2, <5>1, <5>2
      <4> QED
        BY <4>1, <4>2
    <3> QED
      BY <1>2, <3>1, <3>2 DEF Reports
  <2> QED
    BY <1>8, <2>1, <2>3, <2>5, <2>6 DEF PushInv
<1> QED
  BY <1>7, <1>9, <1>10

(***************************************************************************)
(* The theorems.                                                           *)
(***************************************************************************)
\* No bare record of an older release is emptied, and so the only one of an iOS device
\* that is known no longer by its token (EveryRecordReturned).
NoneEmptied == "emptied" \notin OldRecords

LEMMA PushStarts == NoneEmptied /\ PushInit => PushInv
<1> SUFFICES ASSUME NoneEmptied, PushInit PROVE PushInv
  OBVIOUS
<1>1. /\ info = Nothing /\ DOMAIN Nothing = {} /\ history = {} /\ reported = {}
      /\ held = [kp \in Keys \X Platforms |-> 1] /\ req = [r \in Requests |-> NewRequest]
      /\ before = [r \in Requests |-> {}]
  BY NothingFacts DEF PushInit
<1>2. /\ 1 \in Tokens /\ 1 # NoToken /\ 1 <= 1 /\ "harmony" \in Platforms /\ "ios" \in Platforms
  BY PushAssumption DEF NoToken, Platforms
<1>3. \/ /\ legacy = [k \in Keys |-> [platform |-> "harmony", token |-> 1]] /\ bare = Nothing
      \/ legacy = Nothing /\ bare = [k \in Keys |-> 1]
      \/ legacy = Nothing /\ bare = Nothing
  BY DEF PushInit, NoneEmptied
<1>4. /\ DOMAIN legacy \subseteq Keys /\ DOMAIN bare \subseteq Keys
      /\ \A k \in DOMAIN legacy : legacy[k].platform = "harmony" /\ legacy[k].token = 1
      /\ \A k \in DOMAIN bare : bare[k] = 1
      /\ \A k \in DOMAIN legacy : k \notin DOMAIN bare
  BY <1>1, <1>3
<1>5. Nothing = [x \in DOMAIN Nothing |-> Nothing[x]]
  BY DEF Nothing
<1>6. legacy \in [DOMAIN legacy -> [platform : Platforms, token : Tokens]]
  <2> DEFINE old == [platform |-> "harmony", token |-> 1]
  <2>1. old \in [platform : Platforms, token : Tokens]
    BY <1>2
  <2> HIDE DEF old
  <2>2. CASE legacy = [k \in Keys |-> old]
    BY <2>1, <2>2
  <2>3. CASE legacy = Nothing
    BY <1>1, <1>5, <2>3
  <2> QED
    BY <1>3, <2>2, <2>3 DEF old
<1>7. bare \in [DOMAIN bare -> Tokens \cup {NoToken}]
  BY <1>1, <1>2, <1>3, <1>5
<1>8. info \in [DOMAIN info -> Tokens \cup {NoToken}]
  BY <1>1, <1>5
<1>9. RegistryTypeOK
  BY <1>1, <1>4, <1>6, <1>7, <1>8 DEF RegistryTypeOK
<1>10. Typed
  BY <1>1, <1>2, <1>9, NewFacts DEF Typed
<1>11. Synced
  BY <1>1, <1>2, <1>4 DEF Synced
<1>12. \A k \in Keys, p \in Platforms : held[<<k, p>>] = 1
  BY <1>1
<1>13. Behind
  BY <1>1, <1>2, <1>4, <1>12 DEF Behind
<1>14. Reports
  BY <1>1 DEF Reports
<1>15. \A r \in Requests : req[r].step = "new" /\ before[r] = {}
  BY <1>1, NewFacts
<1>16. Withdrawn
  BY <1>15 DEF Withdrawn
<1>17. Sound(NewRequest) /\ Newest(NewRequest, held)
  BY NewFacts, NothingFacts DEF Sound, Newest
<1> QED
  BY <1>1, <1>10, <1>11, <1>13, <1>14, <1>16, <1>17 DEF PushInv

LEMMA PushStep == PushInv /\ [PushNext]_pushVars => PushInv'
<1> SUFFICES ASSUME PushInv, [PushNext]_pushVars PROVE PushInv'
  OBVIOUS
<1>1. ASSUME NEW k \in Keys, NEW p \in Platforms, Renew(k, p) \/ Register(k, p)
      PROVE  PushInv'
  BY <1>1, RenewKeeps, RegisterKeeps
<1>2. ASSUME NEW r \in Requests, Push(r) \/ PushDelete(r)
      PROVE  PushInv'
  BY <1>2, PushKeeps, PushDeleteKeeps
<1>3. ASSUME NEW r \in Requests, Serve(r)
      PROVE  PushInv'
  BY <1>3, RecordKeeps, DeliverPassiveKeeps, FinishKeeps, CleanUpKeeps, CallKeeps, ReturnKeeps
     DEF Serve
<1>4. CASE UNCHANGED pushVars
  <2>1. UNCHANGED <<registry, held, req, history, reported, before>>
    BY <1>4 DEF pushVars
  <2>2. RegistryTypeOK' /\ Synced' /\ Behind' /\ Reports'
    BY <2>1, RegistryStays DEF PushInv
  <2>3. Typed' /\ Withdrawn'
    BY <2>1, <2>2 DEF PushInv, Typed, Withdrawn
  <2>4. \A r \in Requests : Sound(req'[r]) /\ Newest(req'[r], held')
    BY <2>1 DEF PushInv
  <2>5. (\A r \in Requests : Sound(req[r]) /\ Newest(req[r], held))'
    BY <2>4
  <2> QED
    BY <2>2, <2>3, <2>5 DEF PushInv
<1> QED
  BY <1>1, <1>2, <1>3, <1>4 DEF PushNext

LEMMA PushSafe ==
  ASSUME NoneEmptied
  PROVE  PushSpec => []PushInv
<1>1. PushInit => PushInv
  BY PushStarts
<1> QED
  BY <1>1, PushStep, PTL DEF PushSpec

LEMMA InvIsTyped == PushInv => PushTypeOK
<1> SUFFICES ASSUME PushInv PROVE PushTypeOK
  OBVIOUS
<1>1. /\ RegistryTypeOK /\ held \in [Keys \X Platforms -> Tokens] /\ history \subseteq Requests
  BY DEF PushInv, Typed
<1>2. ASSUME NEW r \in Requests
      PROVE  /\ req[r].step \in Steps /\ req[r].code \in {0, 200, 400, 404, 500}
             /\ req[r].key \in Keys /\ req[r].id \in Ids \cup {NoId}
             /\ req[r].copy \in {"none", "kept", "lost", "removed"}
             /\ DOMAIN req[r].targets \subseteq Platforms
             /\ {req[r].targets[p] : p \in DOMAIN req[r].targets} \subseteq Tokens
             /\ req[r].code # 0 <=> req[r].step = "done"
             /\ req[r].step \notin {"new", "done"} =>
                  /\ req[r].todo \cup DOMAIN req[r].calls \cup req[r].ok \cup req[r].failed
                       = DOMAIN req[r].targets
                  /\ req[r].ok \cap req[r].failed = {}
                  /\ DOMAIN req[r].targets # {}
  <2>1. req[r] \in Request /\ Sound(req[r])
    BY DEF PushInv, Typed
  <2>2. /\ req[r].step \in Steps /\ req[r].code \in Codes /\ req[r].key \in Keys
        /\ req[r].id \in Ids \cup {NoId} /\ req[r].copy \in Copies /\ req[r].targets \in Found
    BY <2>1 DEF Request
  <2>3. /\ DOMAIN req[r].targets \subseteq Platforms
        /\ {req[r].targets[p] : p \in DOMAIN req[r].targets} \subseteq Tokens
    BY <2>2, FoundFacts
  <2>4. req[r].code # 0 <=> req[r].step = "done"
    BY <2>1 DEF Sound
  <2>5. req[r].step \notin {"new", "done"} => Booked(req[r])
    BY <2>1 DEF Sound
  <2> QED
    BY <2>2, <2>3, <2>4, <2>5 DEF Codes, Copies, Booked
<1> QED
  BY <1>1, <1>2 DEF PushTypeOK

\* Every target of a request is, until it ended, waiting, under way, delivered or
\* failed, and never two of these (pushToAPNs, pushToHarmony, the WaitGroup of push).
THEOREM PushTyped ==
  ASSUME NoneEmptied
  PROVE  PushSpec => []PushTypeOK
<1>1. PushSpec => []PushInv
  BY PushSafe
<1> QED
  BY <1>1, InvIsTyped, PTL

\* The registration check finds a token for a key exactly when a push does, whatever
\* was registered, cleared and left by older releases (DeviceTokenByKey, DevicesByKey).
THEOREM RegistryReadsAgree ==
  ASSUME NoneEmptied
  PROVE  PushSpec => []CheckAgrees
<1>0. PushSpec => []PushInv
  BY PushSafe
<1>1. PushInv => CheckAgrees
  BY ReadsAgree DEF PushInv, Typed
<1> QED
  BY <1>0, <1>1, PTL

\* A token goes from the registry only where a push service called one dead, and none
\* it called dead is kept (pushToAPNs, pushToHarmony, ClearDeviceTokenByKeyAndPlatform).
THEOREM OnlyDeadCleared ==
  ASSUME NoneEmptied
  PROVE  PushSpec => []ClearedWasDead
<1>0. PushSpec => []PushInv
  BY PushSafe
<1>1. PushInv => ClearedWasDead
  <2> SUFFICES ASSUME PushInv, NEW kp \in DOMAIN info
               PROVE  /\ info[kp] = NoToken => \E t \in Tokens : <<kp[1], kp[2], t>> \in reported
                      /\ <<kp[1], kp[2], info[kp]>> \notin reported
    BY DEF ClearedWasDead
  <2>1. PICK k \in Keys, p \in Platforms : kp = <<k, p>>
    BY DEF PushInv, Typed, RegistryTypeOK
  <2>2. /\ info[<<k, p>>] = NoToken => \E t \in Tokens : <<k, p, t>> \in reported
        /\ <<k, p, info[<<k, p>>]>> \notin reported
    BY <2>1 DEF PushInv, Reports
  <2> QED
    BY <2>1, <2>2
<1> QED
  BY <1>0, <1>1, PTL

\* Of what had ended under its id when it began, a delete request that removed the
\* history's copy leaves none, and none comes back (pushDelete).
THEOREM WithdrawnGone ==
  ASSUME NoneEmptied
  PROVE  PushSpec => []WithdrawnStaysGone
<1>0. PushSpec => []PushInv
  BY PushSafe
<1>1. PushInv => WithdrawnStaysGone
  BY DEF PushInv, Withdrawn, WithdrawnStaysGone, Ended
<1> QED
  BY <1>0, <1>1, PTL

(***************************************************************************)
(* The answer.  A request ends by Finish or CleanUp, with its status.      *)
(***************************************************************************)
LEMMA OneRequest ==
  ASSUME Typed, NEW r \in Requests, NEW x, req' = [req EXCEPT ![r] = x]
  PROVE  req'[r] = x /\ \A q \in Requests \ {r} : req'[q] = req[q]
BY DEF Typed

LEMMA RecordsOne ==
  ASSUME Typed, NEW r \in Requests, Record(r)
  PROVE  \E x : req' = [req EXCEPT ![r] = x] /\ x.step = "deliver"
<1>1. req[r] \in Request
  BY DEF Typed
<1>2. ASSUME NEW c, req' = [req EXCEPT ![r].step = "deliver", ![r].copy = c]
      PROVE  \E x : req' = [req EXCEPT ![r] = x] /\ x.step = "deliver"
  <2> DEFINE x == [req[r] EXCEPT !.step = "deliver", !.copy = c]
  <2>1. req' = [req EXCEPT ![r] = x] /\ x.step = "deliver"
    BY <1>1, <1>2 DEF Typed, Request
  <2> QED
    BY <2>1
<1>3. ASSUME req' = [req EXCEPT ![r].step = "deliver"]
      PROVE  \E x : req' = [req EXCEPT ![r] = x] /\ x.step = "deliver"
  <2> DEFINE x == [req[r] EXCEPT !.step = "deliver"]
  <2>1. req' = [req EXCEPT ![r] = x] /\ x.step = "deliver"
    BY <1>1, <1>3 DEF Typed, Request
  <2> QED
    BY <2>1
<1> QED
  BY <1>2, <1>3 DEF Record

LEMMA CallsOne ==
  ASSUME Typed, NEW r \in Requests, NEW p \in Platforms, Call(r, p)
  PROVE  \E x : req' = [req EXCEPT ![r] = x] /\ x.step = "deliver"
<1>1. req[r] \in Request /\ req[r].step = "deliver"
  BY DEF Typed, Call, MayCall
<1>2. PICK answer :
        req' = [req EXCEPT ![r].todo = @ \ {p}, ![r].calls = With(@, p, answer)]
  BY DEF Call
<1> DEFINE x == [req[r] EXCEPT !.todo = @ \ {p}, !.calls = With(@, p, answer)]
<1>3. req' = [req EXCEPT ![r] = x]
  BY <1>2 DEF Typed
<1>4. x.step = "deliver"
  BY <1>1 DEF Request
<1> QED
  BY <1>3, <1>4

LEMMA EndsWithStatus ==
  ASSUME PushInv, PushNext, NEW r \in Requests, Answered(r)
  PROVE  req'[r].code = Status(r)
<1>1. /\ Typed /\ req[r] \in Request /\ req[r].step \notin {"new", "done"} /\ Sound(req[r])
      /\ Newest(req[r], held) /\ req'[r].step = "done"
  BY DEF PushInv, Typed, Answered
<1>2. ASSUME NEW k \in Keys, NEW p \in Platforms, Renew(k, p) \/ Register(k, p)
      PROVE  FALSE
  BY <1>1, <1>2 DEF Renew, Register
<1>3. ASSUME NEW q \in Requests, Push(q) \/ PushDelete(q)
      PROVE  FALSE
  <2>1. PICK asked, only : Begin(q, asked, only)
    BY <1>3 DEF Push, PushDelete
  <2>2. PICK x : req' = [req EXCEPT ![q] = x]
    BY <2>1 DEF Begin
  <2>3. q # r
    BY <1>1, <2>1 DEF Begin
  <2> QED
    BY <1>1, <2>2, <2>3, OneRequest
<1>4. ASSUME NEW q \in Requests, Serve(q), q # r
      PROVE  FALSE
  <2>1. PICK x : req' = [req EXCEPT ![q] = x]
    <3>1. CASE Record(q)
      BY <1>1, <3>1, RecordsOne
    <3>2. CASE DeliverPassive(q) \/ Finish(q) \/ CleanUp(q)
      BY <3>2 DEF DeliverPassive, Finish, CleanUp
    <3>3. CASE \E p \in Platforms : Call(q, p)
      BY <1>1, <3>3, CallsOne
    <3>4. CASE \E p \in Platforms : Return(q, p)
      BY <3>4 DEF Return
    <3> QED
      BY <1>4, <3>1, <3>2, <3>3, <3>4 DEF Serve
  <2> QED
    BY <1>1, <1>4, <2>1, OneRequest
<1>5. CASE Record(r)
  <2>1. PICK x : req' = [req EXCEPT ![r] = x] /\ x.step = "deliver"
    BY <1>1, <1>5, RecordsOne
  <2> QED
    BY <1>1, <2>1, OneRequest
<1>6. CASE DeliverPassive(r)
  <2> DEFINE x == Delivered(r, "harmony", IF req[r].copy = "lost" THEN "error" ELSE "ok")
  <2>1. req' = [req EXCEPT ![r] = x] /\ req[r].step = "deliver"
    BY <1>6 DEF DeliverPassive
  <2>2. x.step = "deliver"
    BY <1>1, <2>1 DEF Delivered, Request
  <2> HIDE DEF x
  <2> QED
    BY <1>1, <2>1, <2>2, OneRequest
<1>7. ASSUME NEW p \in Platforms, Call(r, p)
      PROVE  FALSE
  <2>1. PICK x : req' = [req EXCEPT ![r] = x] /\ x.step = "deliver"
    BY <1>1, <1>7, CallsOne
  <2> QED
    BY <1>1, <2>1, OneRequest
<1>8. ASSUME NEW p \in Platforms, Return(r, p)
      PROVE  FALSE
  <2> DEFINE x == Delivered(r, p, req[r].calls[p])
  <2>1. req' = [req EXCEPT ![r] = x] /\ req[r].step = "deliver"
    BY <1>1, <1>8 DEF Return, Counted, Sound
  <2>2. x.step = "deliver"
    BY <1>1, <2>1 DEF Delivered, Request
  <2> HIDE DEF x
  <2> QED
    BY <1>1, <2>1, <2>2, OneRequest
<1>9. CASE Finish(r)
  <2>1. CASE req[r].delete
    <3> DEFINE x == [req[r] EXCEPT !.step = "cleanup"]
    <3>1. req' = [req EXCEPT ![r] = x]
      BY <1>1, <1>9, <2>1 DEF Finish, Typed
    <3>2. x.step = "cleanup"
      BY <1>1 DEF Request
    <3> HIDE DEF x
    <3> QED
      BY <1>1, <3>1, <3>2, OneRequest
  <2>2. CASE ~ req[r].delete
    <3>1. req' = [req EXCEPT ![r] = AnsweredWith(r, "none")] /\ "none" \in Copies
      BY <1>9, <2>2 DEF Finish, Copies
    <3>2. req'[r] = AnsweredWith(r, "none")
      BY <1>1, <3>1, OneRequest
    <3> QED
      BY <1>1, <3>1, <3>2, AnsweredFacts
  <2> QED
    BY <2>1, <2>2
<1>10. CASE CleanUp(r)
  <2>1. PICK c \in Copies : req' = [req EXCEPT ![r] = AnsweredWith(r, c)]
    BY <1>10 DEF CleanUp, Copies
  <2>2. req'[r] = AnsweredWith(r, c)
    BY <1>1, <2>1, OneRequest
  <2> QED
    BY <1>1, <2>2, AnsweredFacts
<1>11. PICK q \in Requests : Serve(q)
  BY <1>2, <1>3 DEF PushNext
<1> QED
  BY <1>4, <1>5, <1>6, <1>7, <1>8, <1>9, <1>10, <1>11 DEF Serve

LEMMA InvAnswersTruly ==
  ASSUME PushInv, NEW r \in Requests, Answered(r)
  PROVE  Status(r) = 200 <=> GotThere(r) # {}
<1>1. /\ req[r] \in Request /\ Sound(req[r]) /\ req[r].step \notin {"new", "done"}
  BY DEF PushInv, Typed, Answered
<1>2. req[r].step \in {"record", "deliver", "cleanup"} /\ Booked(req[r])
  BY <1>1 DEF Request, Steps, Sound
<1>3. req[r].kind = "passive" /\ "harmony" \in req[r].ok => req[r].copy = "kept"
  <2>1. CASE req[r].step = "record"
    BY <1>1, <2>1 DEF Sound
  <2>2. CASE req[r].step # "record"
    <3>1. "harmony" \in req[r].ok => "harmony" \in DOMAIN req[r].targets
      BY <1>2 DEF Booked
    <3> QED
      BY <1>1, <1>2, <2>2, <3>1 DEF Sound
  <2> QED
    BY <2>1, <2>2
<1>4. GotThere(r) = req[r].ok
  BY <1>3 DEF GotThere
<1> QED
  BY <1>4 DEF Status

\* A request is answered with 200 exactly when its message got to a device, or for a
\* passive one into the history it is fetched from (push, pushDelete).
THEOREM AnswersAreTrue ==
  ASSUME NoneEmptied
  PROVE  PushSpec => AnswersTruly
<1>0. PushSpec => []PushInv
  BY PushSafe
<1>1. PushInv /\ [PushNext]_pushVars
        => [\A r \in Requests : Answered(r) => (req'[r].code = 200 <=> GotThere(r) # {})]_pushVars
  <2> SUFFICES ASSUME PushInv, PushNext, NEW r \in Requests, Answered(r)
               PROVE  req'[r].code = 200 <=> GotThere(r) # {}
    OBVIOUS
  <2> QED
    BY EndsWithStatus, InvAnswersTruly
<1> QED
  BY <1>0, <1>1, PTL DEF AnswersTruly, PushSpec

(***************************************************************************)
(* The bucket as the interface sees it.  Without a record of the older     *)
(* format, a registration touches the record it names and no other.        *)
(***************************************************************************)
NoLegacy == DOMAIN legacy = {}

Shown == [kp \in Known |-> TokenOf(kp)]

ShownFacts ==
  /\ DOMAIN Shown \subseteq Keys \X Platforms
  /\ \A k \in Keys, p \in Platforms :
       /\ <<k, p>> \in DOMAIN Shown
            <=> <<k, p>> \in DOMAIN info \/ (p = "ios" /\ k \in DOMAIN bare)
       /\ <<k, p>> \in DOMAIN Shown =>
            Shown[<<k, p>>] = IF <<k, p>> \in DOMAIN info THEN info[<<k, p>>] ELSE bare[k]

LEMMA ShowsBoth == RegistryTypeOK /\ NoLegacy => ShownFacts
<1> SUFFICES ASSUME RegistryTypeOK, NoLegacy PROVE ShownFacts
  OBVIOUS
<1>1. DOMAIN Shown = Known /\ Known \subseteq Keys \X Platforms
  BY DEF Shown, Known
<1>2. ASSUME NEW k \in Keys, NEW p \in Platforms
      PROVE  /\ <<k, p>> \in DOMAIN Shown
                  <=> <<k, p>> \in DOMAIN info \/ (p = "ios" /\ k \in DOMAIN bare)
             /\ <<k, p>> \in DOMAIN Shown =>
                  Shown[<<k, p>>] = IF <<k, p>> \in DOMAIN info THEN info[<<k, p>>] ELSE bare[k]
  <2>1. k \notin DOMAIN legacy
    BY DEF NoLegacy
  <2>2. <<k, p>> \in Known <=> <<k, p>> \in DOMAIN info \/ (p = "ios" /\ k \in DOMAIN bare)
    BY <2>1 DEF Known
  <2>3. <<k, p>> \in Known => Shown[<<k, p>>] = TokenOf(<<k, p>>)
    BY DEF Shown
  <2>4. TokenOf(<<k, p>>) = IF <<k, p>> \in DOMAIN info THEN info[<<k, p>>] ELSE bare[k]
    BY <2>1 DEF TokenOf
  <2> QED
    BY <1>1, <2>2, <2>3, <2>4
<1> QED
  BY <1>1, <1>2 DEF ShownFacts

LEMMA ShowsBothNext == RegistryTypeOK' /\ NoLegacy' => ShownFacts'
BY ShowsBoth, PTL

LEMMA SaveIsSave ==
  ASSUME RegistryTypeOK, NoLegacy, NEW k \in Keys, NEW p \in Platforms, NEW t \in Tokens,
         SaveDeviceInfo(k, p, t)
  PROVE  Interface!Save(k, p, t) /\ NoLegacy'
<1>1. Saved(k, p, t) /\ RegistryTypeOK'
  BY SaveFacts
<1>2. NoLegacy'
  BY <1>1 DEF Saved, NoLegacy
<1>3. ShownFacts /\ ShownFacts'
  BY <1>1, <1>2, ShowsBoth, ShowsBothNext
<1>4. ASSUME NEW j \in Keys, NEW q \in Platforms
      PROVE  /\ <<j, q>> \in DOMAIN Shown' <=> <<j, q>> \in DOMAIN Shown \cup {<<k, p>>}
             /\ <<j, q>> \in DOMAIN Shown' =>
                  Shown'[<<j, q>>] = IF <<j, q>> = <<k, p>> THEN t ELSE Shown[<<j, q>>]
  <2>1. CASE j = k /\ q = p
    BY <1>1, <1>3, <2>1 DEF Saved, ShownFacts
  <2>2. CASE ~ (j = k /\ q = p)
    <3>1. /\ <<j, q>> \in DOMAIN info' <=> <<j, q>> \in DOMAIN info
          /\ <<j, q>> \in DOMAIN info => info'[<<j, q>>] = info[<<j, q>>]
      BY <1>1, <2>2 DEF Saved
    <3>2. q = "ios" => /\ j \in DOMAIN bare' <=> j \in DOMAIN bare
                       /\ j \in DOMAIN bare => bare'[j] = bare[j]
      BY <1>1, <2>2 DEF Saved
    <3> QED
      BY <1>3, <2>2, <3>1, <3>2 DEF ShownFacts
  <2> QED
    BY <2>1, <2>2
<1>5. DOMAIN Shown' = DOMAIN Shown \cup {<<k, p>>}
  BY <1>3, <1>4 DEF ShownFacts
<1>6. \A kp \in DOMAIN Shown' : Shown'[kp] = IF kp = <<k, p>> THEN t ELSE Shown[kp]
  BY <1>3, <1>4 DEF ShownFacts
<1>7. Shown' = [kp \in DOMAIN Shown' |-> Shown'[kp]]
  BY DEF Shown
<1>8. Shown' = [kp \in DOMAIN Shown \cup {<<k, p>>} |-> IF kp = <<k, p>> THEN t ELSE Shown[kp]]
  BY <1>5, <1>6, <1>7
<1> QED
  BY <1>2, <1>8 DEF Interface!Save, Shown

LEMMA ClearIsClear ==
  ASSUME RegistryTypeOK, Synced, NoLegacy, NEW k \in Keys, NEW p \in Platforms,
         ClearDeviceTokenByKeyAndPlatform(k, p)
  PROVE  (Interface!Clear(k, p) \/ Shown' = Shown) /\ NoLegacy'
<1>1. Cleared(k, p) /\ RegistryTypeOK'
  BY ClearFacts
<1>2. NoLegacy'
  BY <1>1 DEF Cleared, NoLegacy
<1>3. CASE <<k, p>> \notin DOMAIN info
  <2>1. info' = info /\ bare' = bare /\ legacy' = legacy
    BY <1>1, <1>3 DEF Cleared
  <2> QED
    BY <1>2, <2>1 DEF Shown, Known, TokenOf
<1>4. CASE <<k, p>> \in DOMAIN info
  <2>1. ShownFacts /\ ShownFacts'
    BY <1>1, <1>2, ShowsBoth, ShowsBothNext
  <2>2. ASSUME NEW j \in Keys, NEW q \in Platforms
        PROVE  /\ <<j, q>> \in DOMAIN Shown' <=> <<j, q>> \in DOMAIN Shown
               /\ <<j, q>> \in DOMAIN Shown' =>
                    Shown'[<<j, q>>] = IF <<j, q>> = <<k, p>> THEN NoToken ELSE Shown[<<j, q>>]
    <3>1. CASE j = k /\ q = p
      BY <1>1, <1>4, <2>1, <3>1 DEF Cleared, ShownFacts
    <3>2. CASE ~ (j = k /\ q = p)
      <4>1. /\ <<j, q>> \in DOMAIN info' <=> <<j, q>> \in DOMAIN info
            /\ <<j, q>> \in DOMAIN info => info'[<<j, q>>] = info[<<j, q>>]
        BY <1>1, <3>2 DEF Cleared
      <4>2. q = "ios" => /\ j \in DOMAIN bare' <=> j \in DOMAIN bare
                         /\ j \in DOMAIN bare => bare'[j] = bare[j]
        BY <1>1, <1>4, <3>2 DEF Cleared
      <4> QED
        BY <2>1, <3>2, <4>1, <4>2 DEF ShownFacts
    <3> QED
      BY <3>1, <3>2
  <2>3. DOMAIN Shown' = DOMAIN Shown /\ <<k, p>> \in DOMAIN Shown
    BY <1>4, <2>1, <2>2 DEF ShownFacts
  <2>4. \A kp \in DOMAIN Shown' : Shown'[kp] = IF kp = <<k, p>> THEN NoToken ELSE Shown[kp]
    BY <2>1, <2>2 DEF ShownFacts
  <2>5. Shown' = [kp \in DOMAIN Shown' |-> Shown'[kp]] /\ Shown = [kp \in DOMAIN Shown |-> Shown[kp]]
    BY DEF Shown
  <2>6. Shown' = [Shown EXCEPT ![<<k, p>>] = NoToken]
    BY <2>3, <2>4, <2>5
  <2> QED
    BY <1>2, <2>3, <2>6 DEF Interface!Clear, Shown
<1> QED
  BY <1>3, <1>4

\* The bucket implements the interface of database.go, step by step: a registration is
\* its Save, the report of a dead token its Clear, and nothing else is seen.  A record
\* of the HarmonyOS release that knew one platform per key is outside the theorem.
THEOREM BucketImplements ==
  ASSUME NoneEmptied, "harmony" \notin OldRecords
  PROVE  PushSpec => ImplementsInterface
<1>0. PushSpec => []PushInv
  BY PushSafe
<1>1. PushInit => NoLegacy
  BY NothingFacts DEF PushInit, NoLegacy
<1>2. ASSUME PushInv, NoLegacy, [PushNext]_pushVars
      PROVE  NoLegacy' /\ (Interface!RegNext \/ Shown' = Shown)
  <2>1. RegistryTypeOK /\ Synced /\ held \in [Keys \X Platforms -> Tokens]
    BY <1>2 DEF PushInv, Typed
  <2>2. ASSUME UNCHANGED registry
        PROVE  NoLegacy' /\ Shown' = Shown
    <3>1. info' = info /\ bare' = bare /\ legacy' = legacy
      BY <2>2 DEF registry
    <3> QED
      BY <1>2, <3>1 DEF NoLegacy, Shown, Known, TokenOf
  <2>3. ASSUME NEW k \in Keys, NEW p \in Platforms, Register(k, p)
        PROVE  NoLegacy' /\ Interface!RegNext
    <3>1. PICK t \in Tokens : SaveDeviceInfo(k, p, t)
      BY <2>1, <2>3 DEF Register
    <3>2. Interface!Save(k, p, t) /\ NoLegacy'
      BY <1>2, <2>1, <3>1, SaveIsSave
    <3> QED
      BY <3>1, <3>2 DEF Interface!RegNext
  <2>4. ASSUME NEW r \in Requests, NEW p \in Platforms, Return(r, p)
        PROVE  NoLegacy' /\ (Interface!RegNext \/ Shown' = Shown)
    <3>1. CASE UNCHANGED registry
      BY <2>2, <3>1
    <3>2. CASE ClearDeviceTokenByKeyAndPlatform(req[r].key, p)
      <4>1. req[r].key \in Keys
        BY <1>2 DEF PushInv, Typed, Request
      <4>2. (Interface!Clear(req[r].key, p) \/ Shown' = Shown) /\ NoLegacy'
        BY <1>2, <2>1, <3>2, <4>1, ClearIsClear
      <4> QED
        BY <4>1, <4>2 DEF Interface!RegNext
    <3> QED
      BY <2>4, <3>1, <3>2 DEF Return, ClearDead
  <2>5. ASSUME NEW r \in Requests, Push(r) \/ PushDelete(r)
        PROVE  UNCHANGED registry
    <3>1. PICK asked, only : Begin(r, asked, only)
      BY <2>5 DEF Push, PushDelete
    <3> QED
      BY <3>1 DEF Begin
  <2>6. ASSUME NEW r \in Requests, Serve(r)
        PROVE  NoLegacy' /\ (Interface!RegNext \/ Shown' = Shown)
    <3>1. CASE Record(r) \/ DeliverPassive(r) \/ Finish(r) \/ CleanUp(r)
      BY <2>2, <3>1 DEF Record, DeliverPassive, Finish, CleanUp
    <3>2. CASE \E p \in Platforms : Call(r, p)
      BY <2>2, <3>2 DEF Call
    <3>3. CASE \E p \in Platforms : Return(r, p)
      BY <2>4, <3>3
    <3> QED
      BY <2>6, <3>1, <3>2, <3>3 DEF Serve
  <2>7. ASSUME NEW k \in Keys, NEW p \in Platforms, Renew(k, p)
        PROVE  UNCHANGED registry
    BY <2>7 DEF Renew
  <2>8. CASE UNCHANGED pushVars
    BY <2>2, <2>8 DEF pushVars
  <2> QED
    BY <1>2, <2>2, <2>3, <2>5, <2>6, <2>7, <2>8 DEF PushNext
<1>3. PushInit => Interface!RegInit
  <2> SUFFICES ASSUME PushInit PROVE Interface!RegInit
    OBVIOUS
  <2>1. RegistryTypeOK /\ NoLegacy
    BY <1>1, PushStarts DEF PushInv, Typed
  <2>2. ShownFacts
    BY <2>1, ShowsBoth
  <2>3. DOMAIN info = {} /\ \A k \in DOMAIN bare : bare[k] = 1
    BY NothingFacts DEF PushInit, NoneEmptied
  <2>4. \A kp \in DOMAIN Shown : Shown[kp] \in Tokens
    BY <2>2, <2>3, PushAssumption DEF ShownFacts
  <2>5. Shown = [kp \in DOMAIN Shown |-> Shown[kp]]
    BY DEF Shown
  <2>6. Shown \in [DOMAIN Shown -> Tokens] /\ DOMAIN Shown \in SUBSET (Keys \X Platforms)
    BY <2>2, <2>4, <2>5 DEF ShownFacts
  <2>7. Shown \in UNION {[known -> Tokens] : known \in SUBSET (Keys \X Platforms)}
    BY <2>6
  <2> QED
    BY <2>7 DEF Interface!RegInit, Shown
<1>4. PushInv /\ NoLegacy /\ [PushNext]_pushVars => NoLegacy' /\ [Interface!RegNext]_Shown
  BY <1>2
<1>5. [Interface!RegNext]_Shown => [Interface!RegNext]_[kp \in Known |-> TokenOf(kp)]
  BY DEF Shown
<1> QED
  BY <1>0, <1>1, <1>3, <1>4, <1>5, PTL DEF PushSpec, ImplementsInterface, Interface!RegSpec
=============================================================================
