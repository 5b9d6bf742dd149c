------------------------------ MODULE MCOperator ------------------------------
(* A small instance of Operator for TLC.                                    *)
EXTENDS Operator, MCPublishingStrategy

\* Nothing listed, so that the default is handed over; a default with another domain
\* than cluster-ingress-operator gives it, beside a second ingress; a default refused.
OperatorStrategies ==
    {<<>>,
     <<Default("web", "external", "c1"), Second("apps2", "external", "c1")>>,
     <<Default("alien", "external", "c1")>>}
===============================================================================
