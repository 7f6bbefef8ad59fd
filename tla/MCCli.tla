-------------------------------- MODULE MCCli --------------------------------
(***************************************************************************)
(* The owner's loop over the driver, and what the two promise together.    *)
(***************************************************************************)
EXTENDS MCDriver, SCD41Cli

\* A sensor that does what the steps ask, and one that cannot.
EitherVariant == {Factory, Other(s2, "SCD40")}
CliKinds == {Kind("START_PERIODIC")}
=============================================================================
