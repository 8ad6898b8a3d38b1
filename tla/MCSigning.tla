------------------------------ MODULE MCSigning ------------------------------
EXTENDS Signing

\* One key for each way a signing command tells keys apart.
MCKeys ==
  {[restricted |-> TRUE, scheme |-> "ecdaa", x509sign |-> FALSE],
   [restricted |-> TRUE, scheme |-> "ecdsa", x509sign |-> FALSE],
   [restricted |-> TRUE, scheme |-> "ecdsa", x509sign |-> TRUE],
   [restricted |-> FALSE, scheme |-> "hmac", x509sign |-> FALSE]}
=============================================================================
