-------------------------- MODULE MCProcessStorage --------------------------
(* Constants of the runs of ProcessStorage.                                *)
EXTENDS ProcessStorage, TLC

CONSTANTS w0, w1, w2, t0, t1

(* A row belongs to channel row_id % num_comm_channels_per_client.         *)
ThreeChannels == [r \in Rows |-> IF r % 3 = 0 THEN w0
                                 ELSE IF r % 3 = 1 THEN w1 ELSE w2]
OneChannel  == [r \in Rows |-> w0]

=============================================================================
