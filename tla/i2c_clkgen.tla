------------------------------ MODULE i2c_clkgen ------------------------------
(***************************************************************************)
(* The base clock of the I2C core (i2c_clkgen.vhd): a pulse of one cycle   *)
(* every clk_cnt + 1 cycles.  clk_wait, meant for clock stretching, is the *)
(* constant '0'.                                                           *)
(***************************************************************************)
EXTENDS Integers

VARIABLES clk_ctr, sclk

clkgenVars == <<clk_ctr, sclk>>

ClkgenTypeOK == clk_ctr \in 0..255 /\ sclk \in BOOLEAN

ClkgenInit == clk_ctr = 0 /\ sclk = TRUE

ClkgenReset == clk_ctr' = 0 /\ sclk' = TRUE

(* One clock edge. *)
ClkgenTick(clk_cnt) ==
  /\ sclk' = (clk_ctr >= clk_cnt)
  /\ clk_ctr' = IF clk_ctr >= clk_cnt THEN 0 ELSE clk_ctr + 1
=============================================================================
