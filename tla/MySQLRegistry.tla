---------------------------- MODULE MySQLRegistry ----------------------------
(***************************************************************************)
(* The device database on MySQL (database/mysql.go): the table devices,    *)
(* whose rows are unique by (key, platform).  Each operation is one        *)
(* statement.                                                              *)
(***************************************************************************)
EXTENDS FiniteSets, TLC

CONSTANTS
  Keys,     \* device keys
  Tokens,   \* device tokens
  NoToken   \* the empty token

Platforms == {"ios", "harmony"}

VARIABLE rows  \* the table: <<key, platform>> -> token

\* The table before the first registration, or after the migrations of an older
\* one, which knew one row for each key: its rows become those of iOS devices.
Init == rows \in UNION {[old \X {"ios"} -> Tokens] : old \in SUBSET Keys}

(***************************************************************************)
(* Reading: ORDER BY (platform = 'ios') DESC.                              *)
(***************************************************************************)
RowsOf(k) == {kp \in DOMAIN rows : kp[1] = k}

IosFirst(k) == CHOOSE kp \in RowsOf(k) : <<k, "ios">> \in RowsOf(k) => kp[2] = "ios"

\* The first row only: when its token is empty, an error.
DeviceTokenByKey(k) == IF RowsOf(k) = {} THEN NoToken ELSE rows[IosFirst(k)]

DevicesByKey(k) == [p \in {kp[2] : kp \in RowsOf(k)} |-> rows[<<k, p>>]]

CountAll == Cardinality(DOMAIN rows)

(***************************************************************************)
(* Writing.                                                                *)
(***************************************************************************)
\* INSERT ... ON DUPLICATE KEY UPDATE.
SaveDeviceInfo(k, p, t) == rows' = (<<k, p>> :> t) @@ rows

\* The row stays, without its token.
ClearDeviceTokenByKeyAndPlatform(k, p) ==
  rows' = [kp \in DOMAIN rows |-> IF kp = <<k, p>> THEN NoToken ELSE rows[kp]]

DeleteDeviceByKey(k) == rows' = [kp \in DOMAIN rows \ RowsOf(k) |-> rows[kp]]

Next ==
  \E k \in Keys :
    \/ DeleteDeviceByKey(k)
    \/ \E p \in Platforms : \/ ClearDeviceTokenByKeyAndPlatform(k, p)
                            \/ \E t \in Tokens : SaveDeviceInfo(k, p, t)

Spec == Init /\ [][Next]_rows

(***************************************************************************)
(* The registration check finds a token where a push does: "returns any    *)
(* non-empty token for the key, preferring ios" (mysql.go:124,             *)
(* database.go:20-24).                                                     *)
(***************************************************************************)
CheckAgrees ==
  \A k \in Keys :
    (DeviceTokenByKey(k) # NoToken)
      <=> \E p \in DOMAIN DevicesByKey(k) : DevicesByKey(k)[p] # NoToken
=============================================================================
