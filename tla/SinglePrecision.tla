--------------------------- MODULE SinglePrecision ---------------------------
(***************************************************************************)
(* Bounding boxes are stored in single precision, rounded outwards         *)
(* (Utils in geometry.hpp).  Single precision is the multiples of          *)
(* FloatStep from -FloatMax to FloatMax.                                   *)
(***************************************************************************)
EXTENDS Integers

CONSTANTS FloatStep, FloatMax

(* Utils::DoubleToFloatDown and DoubleToFloatUp.                           *)
BugNearest(x) ==
  IF x > FloatMax THEN FloatMax
  ELSE IF x <= -FloatMax THEN -FloatMax
  ELSE FloatStep * ((x + (FloatStep \div 2)) \div FloatStep)

Down(x) ==
  IF x > FloatMax THEN FloatMax
  ELSE IF x <= -FloatMax THEN -FloatMax
  ELSE x - (x % FloatStep)

Up(x) ==
  IF x >= FloatMax THEN FloatMax
  ELSE IF x < -FloatMax THEN -FloatMax
  ELSE x + ((-x) % FloatStep)

=============================================================================
