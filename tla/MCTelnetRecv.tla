---------------------------- MODULE MCTelnetRecv ----------------------------
(***************************************************************************)
(* Chunks of up to three bytes, without end, over an alphabet with one     *)
(* byte for each case of the parser.  Any byte but IAC and CR is plain     *)
(* data in DATA, any but the commands is a plain command after IAC, and    *)
(* any byte is an option or payload.  The buffer grows twice, to 2 bytes.  *)
(***************************************************************************)
EXTENDS TelnetRecv

MCByte == {"IAC", "SB", "SE", "WILL", "CR", "LF", "NUL"}

MCSizes == <<0, 1, 2>>

\* With MCCPv1's option, and with NEW-ENVIRON's.
Mccp1Byte == {"IAC", "SB", "SE", "WILL", "COMPRESS"}

EnvironByte == {"IAC", "SB", "SE", "WILL", "ENVIRON", "NUL"}
=============================================================================
