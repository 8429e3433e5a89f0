---------------------------- MODULE VolumeCurve ----------------------------
(***************************************************************************)
(* The scales of aspl::VolumeControl and their conversions, VolumeCurve    *)
(* (src/VolumeControl.cpp, src/VolumeCurve.cpp).  The control stores a raw *)
(* integer and converts it for every request; its curve has one range.     *)
(*                                                                         *)
(* Float32 values are multiples of 1/Unit, and an expression of the code   *)
(* is computed exactly and then rounded to the nearest multiple.           *)
(*                                                                         *)
(* Definitions named Bug... are faulty variants of the definition that     *)
(* follows them, kept to show that the properties can fail.                *)
(***************************************************************************)
EXTENDS Integers

CONSTANTS
  MinRaw, MaxRaw,   \* MinRawVolume, MaxRawVolume
  MinDB, MaxDB,     \* MinDecibelVolume, MaxDecibelVolume, in whole decibels
  Unit              \* the precision of a Float32

RawRange == MaxRaw - MinRaw
DBRange == MaxDB - MinDB

(* A Float32 has 24 significant bits: enough for the squares of the raw    *)
(* values of a control.                                                    *)
ASSUME VolumeAssumption ==
  /\ MinRaw \in Int /\ MaxRaw \in Int /\ MinRaw < MaxRaw
  /\ MinDB \in Int /\ MaxDB \in Int /\ MinDB < MaxDB
  /\ Unit \in Nat
  /\ 3 * Unit >= 2 * RawRange * RawRange
  /\ Unit > RawRange

(* roundf of n / d, for n >= 0: halves away from zero.                     *)
Round(n, d) == (2 * n + d) \div (2 * d)

Clamped(x, low, high) == IF x < low THEN low ELSE IF x > high THEN high ELSE x
ClampedRaw(raw) == Clamped(raw, MinRaw, MaxRaw)
ClampedScalar(x) == Clamped(x, 0, Unit)
ClampedDB(x) == Clamped(x, Unit * MinDB, Unit * MaxDB)

(* The transfer function is applied if there are more than 30 decibels.    *)
Curved == DBRange > 30

ConvertRawToScalar(raw) ==
  LET n == ClampedRaw(raw) - MinRaw
  IN  IF Curved
      THEN Round(Unit * n * n, RawRange * RawRange)
      ELSE Round(Unit * n, RawRange)

(* roundf of the square root of x / Unit, times RawRange.                  *)
BugRootSteps(x) ==
  CHOOSE n \in 0..RawRange :
    /\ n * n * Unit <= RawRange * RawRange * x
    /\ RawRange * RawRange * x < (n + 1) * (n + 1) * Unit
RootSteps(x) ==
  CHOOSE n \in 0..RawRange :
    /\ n > 0 => (2 * n - 1) * (2 * n - 1) * Unit <= 4 * RawRange * RawRange * x
    /\ 4 * RawRange * RawRange * x < (2 * n + 1) * (2 * n + 1) * Unit

ConvertScalarToRaw(scalar) ==
  LET x == ClampedScalar(scalar)
  IN  MinRaw + (IF Curved THEN RootSteps(x) ELSE Round(x * RawRange, Unit))

ConvertRawToDB(raw) ==
  Unit * MinDB + Round(Unit * (ClampedRaw(raw) - MinRaw) * DBRange, RawRange)

ConvertDBToRaw(db) ==
  MinRaw + Round((ClampedDB(db) - Unit * MinDB) * RawRange, Unit * DBRange)
=============================================================================
