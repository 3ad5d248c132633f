------------------------------ MODULE MCSensors ------------------------------
(* The three sensor classes side by side.  A behaviour uses one of them:     *)
(* they share nothing but the SPI bus, which is open for one transfer.       *)
EXTENDS Mpu9250, Lsm9ds1, Ms5611

VARIABLE sensor

Init == sensor \in {"MPU9250", "LSM9DS1", "MS5611"} /\ MpuInit /\ LsmInit /\ BaroInit

Next ==
  /\ UNCHANGED sensor
  /\ \/ sensor = "MPU9250" /\ MpuNext /\ UNCHANGED <<lsmVars, baroVars>>
     \/ sensor = "LSM9DS1" /\ LsmNext /\ UNCHANGED <<mpuVars, baroVars>>
     \/ sensor = "MS5611" /\ BaroNext /\ UNCHANGED <<mpuVars, lsmVars>>

Spec == Init /\ [][Next]_<<sensor, mpuVars, lsmVars, baroVars>>
==============================================================================
