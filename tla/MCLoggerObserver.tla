--------------------------- MODULE MCLoggerObserver ---------------------------
(* The instances of MCLogger, with the history variable.                   *)
EXTENDS LoggerObserver, MCLogger
=============================================================================
