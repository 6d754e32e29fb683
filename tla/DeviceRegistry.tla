---------------------------- MODULE DeviceRegistry ----------------------------
(***************************************************************************)
(* What the device database promises its callers: the interface Database   *)
(* of database/database.go.  A device key has at most one record for each  *)
(* platform; each operation touches the record it names and no other.      *)
(***************************************************************************)
CONSTANTS Keys, Platforms, Tokens, NoToken

VARIABLE reg   \* <<key, platform>> -> its token, or NoToken once it is cleared

RegInit == reg \in UNION {[known -> Tokens] : known \in SUBSET (Keys \X Platforms)}

\* SaveDeviceInfo: an upsert by (key, platform).
Save(k, p, t) ==
  reg' = [kp \in DOMAIN reg \cup {<<k, p>>} |-> IF kp = <<k, p>> THEN t ELSE reg[kp]]

\* ClearDeviceTokenByKeyAndPlatform: the record stays, so the key remains known.
Clear(k, p) ==
  /\ <<k, p>> \in DOMAIN reg
  /\ reg' = [reg EXCEPT ![<<k, p>>] = NoToken]

\* DeleteDeviceByKey: every platform of the key.
DeleteDevice(k) ==
  reg' = [kp \in {x \in DOMAIN reg : x[1] # k} |-> reg[kp]]

RegNext ==
  \E k \in Keys :
    \/ DeleteDevice(k)
    \/ \E p \in Platforms : Clear(k, p) \/ \E t \in Tokens : Save(k, p, t)

RegSpec == RegInit /\ [][RegNext]_reg
=============================================================================
