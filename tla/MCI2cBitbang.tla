---------------------------- MODULE MCI2cBitbang ----------------------------
(* TLC instance of I2cBitbang: every kind of codec, real addresses and bytes. *)
EXTENDS I2cBitbang

MCKinds == {"healthy", "no_auto_increment", "wrong_id", "refuses_reg", "absent"}
=============================================================================
