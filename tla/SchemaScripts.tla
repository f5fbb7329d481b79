-------------------------- MODULE SchemaScripts --------------------------
(* The data of the schema upgrades: SCHEMA of storage/sqlite.py (version 1)  *)
(* and every script of MIGRATIONS in storage/migrations.py, each as the      *)
(* sequence of statements SQLite executes, in the order of the script.       *)
(* A statement says what it does to which table: the columns a CREATE TABLE  *)
(* declares and the bodies of triggers are abstracted to names, indexes are  *)
(* left out (their statements are all IF NOT EXISTS and nothing reads them), *)
(* and a column is recorded only when some ADD COLUMN statement adds it.     *)
(* Migrations.tla executes these scripts.                                    *)
EXTENDS Naturals, Sequences, SequencesExt

Statement(kind, on, what, cols) ==
  [do |-> kind, on |-> on, what |-> what, cols |-> cols]

\* CREATE TABLE IF NOT EXISTS, one statement for each table
Make(ts) == [i \in DOMAIN ts |-> Statement("make", ts[i], "", {})]
\* CREATE TABLE of a rebuilt table, with the ADDed columns it declares itself
Create(t, cols) == <<Statement("create", t, "", cols)>>
\* ALTER TABLE t ADD COLUMN, one statement for each column
Add(t, cs) == [i \in DOMAIN cs |-> Statement("add", t, cs[i], {})]
\* CREATE TRIGGER IF NOT EXISTS g ON t / CREATE TRIGGER g ON t / DROP TRIGGER
Guard(t, gs) == [i \in DOMAIN gs |-> Statement("guard", t, gs[i], {})]
NewGuard(t, gs) == [i \in DOMAIN gs |-> Statement("newguard", t, gs[i], {})]
Unguard(gs) == [i \in DOMAIN gs |-> Statement("unguard", "", gs[i], {})]
\* INSERT INTO b SELECT ... FROM a, DROP TABLE, ALTER TABLE a RENAME TO b
Copy(a, b) == <<Statement("copy", a, b, {})>>
Drop(t) == <<Statement("drop", t, "", {})>>
DropIf(t) == <<Statement("dropif", t, "", {})>>
Rename(a, b) == <<Statement("rename", a, b, {})>>

\* 1: v0 1 kernel
V1a ==
  Make(<<"workspaces", "actors", "sources", "documents", "documents_fts", "facts",
      "relations", "memories", "audit_events", "work_items", "work_events">>)
V1b ==
  Make(<<"work_idempotency_keys", "touchpoints", "playbooks", "client_brains",
      "status_posts">>)
\* 2: organization and delivery core
V2 ==
  Make(<<"organizations", "people", "organization_memberships", "workspace_memberships",
      "workspace_organization", "projects", "deliverables", "reviews", "review_comments",
      "decisions">>)
\* 3: client operations
V3 ==
  Make(<<"contacts", "relationships", "sentiment_snapshots", "client_health_snapshots",
      "risks", "opportunities", "contracts", "scope_allowances", "scope_usage", "meetings",
      "meeting_participants", "transcripts", "meeting_outputs", "conversations",
      "communication_participants", "messages", "signals">>)
\* 4: agency systems
V4 ==
  Make(<<"roles", "departments", "skills", "person_skills", "availability",
      "leave_records", "capacity_snapshots", "utilization_snapshots", "campaigns", "channels",
      "ad_accounts", "ad_sets", "ads", "campaign_metric_snapshots", "attribution_snapshots",
      "campaign_anomalies", "creative_assets", "creative_versions", "creative_tags",
      "creative_asset_tags", "creative_performance", "content_channels", "content_items",
      "content_performance", "finance_connections", "revenues", "invoices", "payments",
      "costs", "budgets", "expenses", "software_costs", "ai_usage_costs", "client_economics",
      "notifications", "approval_requests">>)
\* 5: agents automations integrations reports
V5 ==
  Make(<<"agent_roles", "agents", "agent_tasks", "agent_runs", "tool_calls", "run_traces",
      "run_outputs", "run_errors", "agent_queue_items", "automations", "automation_triggers",
      "automation_conditions", "automation_actions", "automation_runs", "automation_errors",
      "integrations", "sync_runs", "report_runs">>)
\* 6: brain maturity
V6 ==
  Make(<<"entities", "entity_aliases", "entity_merge_history", "memory_proposals",
      "knowledge_health_issues", "projection_state">>)
\* 7: expanded work system
V7 ==
  Add("work_items", <<"project_id", "campaign_id", "parent_id", "owner_person_id",
      "assignee_person_id", "reviewer_person_id", "priority", "tags", "estimate_hours",
      "actual_effort_hours", "start_date", "deadline", "blocking_reason", "brief",
      "brain_context", "financial_value">>)
  \o Make(<<"work_watchers", "work_dependencies", "work_files", "work_links",
         "work_comments", "work_versions", "time_entries">>)
\* 8: promotion sync and delivery details
V8 ==
  Make(<<"canonical_knowledge", "initiatives", "deliverable_files",
      "deliverable_versions", "ledger_audit">>)
\* 9: automatic ledger audit
V9 ==
  Guard("projects", <<"audit_projects_insert">>)
  \o Guard("work_items", <<"audit_work_insert", "audit_work_update">>)
  \o Guard("deliverables", <<"audit_deliverables_insert">>)
  \o Guard("reviews", <<"audit_reviews_insert">>)
  \o Guard("decisions", <<"audit_decisions_insert">>)
  \o Guard("signals", <<"audit_signals_insert">>) \o Guard("risks", <<"audit_risks_insert">>)
  \o Guard("opportunities", <<"audit_opportunities_insert">>)
  \o Guard("campaigns", <<"audit_campaigns_insert">>)
  \o Guard("creative_assets", <<"audit_creative_insert">>)
  \o Guard("content_items", <<"audit_content_insert">>)
  \o Guard("approval_requests", <<"audit_approvals_insert">>)
  \o Guard("agent_runs", <<"audit_agent_runs_insert">>)
  \o Guard("automation_runs", <<"audit_automation_runs_insert">>)
  \o Guard("memory_proposals", <<"audit_proposals_insert">>)
  \o Guard("invoices", <<"audit_invoices_insert">>)
\* 10: workflow run engine
V10a ==
  Make(<<"workflow_definitions", "workflow_definition_versions",
      "workflow_definition_steps", "workflow_definition_edges", "workflow_runs",
      "workflow_stage_runs", "workflow_stage_dependencies", "workflow_evidence">>)
V10b ==
  Make(<<"workflow_approval_decisions", "workflow_handoff_acknowledgements",
      "workflow_transition_history", "workflow_idempotency_keys">>)
  \o Guard("workflow_definition_versions", <<"workflow_definition_version_no_update",
         "workflow_definition_version_no_delete">>)
  \o Guard("workflow_definition_steps", <<"workflow_definition_step_no_update",
         "workflow_definition_step_no_delete">>)
  \o Guard("workflow_definition_edges", <<"workflow_definition_edge_no_update",
         "workflow_definition_edge_no_delete">>)
  \o Guard("workflow_runs", <<"workflow_run_snapshot_no_update">>)
  \o Guard("workflow_stage_runs", <<"workflow_stage_contract_no_update">>)
  \o Guard("workflow_evidence", <<"workflow_evidence_no_update",
         "workflow_evidence_no_delete">>)
  \o Guard("workflow_approval_decisions", <<"workflow_approval_no_update",
         "workflow_approval_no_delete">>)
  \o Guard("workflow_handoff_acknowledgements", <<"workflow_handoff_no_update",
         "workflow_handoff_no_delete">>)
  \o Guard("workflow_transition_history", <<"workflow_history_no_update",
         "workflow_history_no_delete">>)
\* 11: auth jobs and outbox
V11a ==
  Make(<<"auth_principals", "auth_sessions", "api_tokens", "principal_actor_bindings",
      "system_state", "secret_bindings", "jobs">>)
V11b ==
  Make(<<"job_events", "outbox_events">>)
  \o Guard("job_events", <<"job_events_no_update", "job_events_no_delete">>)
\* 12: connector inbox cursor dedupe
V12a ==
  Add("secret_bindings", <<"generation">>)
  \o Make(<<"connector_cursors", "connector_ingest_batches", "connector_source_events",
         "connector_batch_events", "connector_dedupe_keys", "connector_stream_locks">>)
  \o Guard("connector_source_events", <<"connector_source_events_no_payload_update",
         "connector_source_events_no_delete">>)
V12b ==
  Guard("connector_dedupe_keys", <<"connector_dedupe_no_update",
      "connector_dedupe_no_delete">>)
  \o Guard("connector_stream_locks", <<"connector_stream_lock_identity_no_update">>)
  \o Add("integrations", <<"expected_account_id", "provider_account_id",
         "provider_account_name", "granted_permissions", "credential_verified_at">>)
\* 13: durable provider routes and evidence lifecycle
V13a ==
  Make(<<"source_lifecycle_intervals", "provider_object_routes",
      "provider_object_ancestry", "provider_route_mutation_staging", "provider_sync_tasks">>)
V13b ==
  Make(<<"provider_sync_generations", "provider_object_generation_seen",
      "provider_object_route_events">>)
  \o Guard("source_lifecycle_intervals", <<"source_lifecycle_identity_no_update",
         "source_lifecycle_no_delete", "source_lifecycle_close_once",
         "source_lifecycle_effective_close_once">>)
  \o Guard("provider_object_route_events", <<"provider_route_events_no_update",
         "provider_route_events_no_delete">>)
  \o Guard("provider_object_routes", <<"provider_routes_identity_no_update">>)
  \o Guard("provider_route_mutation_staging", <<"provider_mutation_identity_no_update">>)
  \o Guard("provider_sync_tasks", <<"provider_sync_task_identity_no_update">>)
\* 14: atomic provider sync coordination
V14 ==
  Add("provider_route_mutation_staging", <<"event_dedupe_key">>)
  \o NewGuard("provider_route_mutation_staging", <<"provider_mutation_event_key_required">>)
  \o Add("provider_sync_generations", <<"cancelled_at">>)
  \o Unguard(<<"provider_mutation_identity_no_update">>)
  \o NewGuard("provider_route_mutation_staging", <<"provider_mutation_identity_no_update",
         "provider_mutation_source_bind_once", "provider_mutation_apply_once">>)
\* 15: provider sync operation identity and quarantine
V15 ==
  Add("provider_sync_tasks", <<"operation_key">>) \o Create("provider_sync_tasks_v15", {"operation_key"})
  \o Copy("provider_sync_tasks", "provider_sync_tasks_v15") \o Drop("provider_sync_tasks")
  \o Rename("provider_sync_tasks_v15", "provider_sync_tasks")
  \o NewGuard("provider_sync_tasks", <<"provider_sync_task_operation_key_required">>)
  \o Unguard(<<"provider_sync_task_identity_no_update">>)
  \o NewGuard("provider_sync_tasks", <<"provider_sync_task_identity_no_update">>)
  \o Make(<<"provider_sync_quarantines">>)
\* 16: durable semantic embedding projection
V16 ==
  Make(<<"document_embedding_projection">>)
\* 17: graph projection generations
V17 ==
  Make(<<"graph_projection_generations">>)
\* 18: entity resolution and knowledge state events
V18 ==
  Add("entities", <<"status", "merged_into", "updated_at">>)
  \o Add("entity_aliases", <<"reviewed_by_person_id", "reviewed_at", "evidence",
         "retired_at">>)
  \o Make(<<"entity_resolution_proposals", "entity_alias_state_events",
         "entity_resolution_decisions", "knowledge_proposal_decisions">>)
  \o Guard("knowledge_proposal_decisions", <<"knowledge_proposal_decision_no_update",
         "knowledge_proposal_decision_no_delete">>)
  \o Guard("entity_resolution_decisions", <<"entity_resolution_decision_no_update",
         "entity_resolution_decision_no_delete">>)
  \o Make(<<"knowledge_state_events">>)
  \o Guard("knowledge_state_events", <<"knowledge_state_monotonic_insert">>)
  \o Guard("entity_resolution_proposals", <<"entity_resolution_no_delete",
         "entity_resolution_no_update">>)
  \o Guard("knowledge_state_events", <<"knowledge_state_no_update",
         "knowledge_state_no_delete">>)
  \o Guard("entity_aliases", <<"entity_aliases_no_update",
         "entity_aliases_no_update_lifecycle", "entity_aliases_no_delete">>)
  \o Guard("entity_alias_state_events", <<"entity_alias_state_no_update",
         "entity_alias_state_no_delete">>)
  \o Guard("entity_merge_history", <<"entity_merge_history_no_update",
         "entity_merge_history_no_delete">>)
  \o Guard("memory_proposals", <<"memory_proposals_no_update",
         "memory_proposals_no_delete">>)
\* 19: agent level routing
V19 ==
  Add("agents", <<"level", "capability_tags">>)
  \o Add("agent_tasks", <<"intent_tags", "recommended_level", "selected_level",
         "level_override_reason">>)
  \o Make(<<"agent_level_overrides">>)
  \o Guard("agent_level_overrides", <<"agent_level_overrides_no_update",
         "agent_level_overrides_no_delete">>)
\* 20: client account rosters
V20 ==
  Make(<<"client_account_rosters", "client_account_roster_roles",
      "meeting_responsibility_events">>)
  \o Guard("client_account_rosters", <<"client_account_rosters_client_workspace">>)
  \o Guard("client_account_roster_roles", <<"client_account_roster_roles_valid_insert">>)
  \o Guard("meeting_responsibility_events", <<"meeting_responsibility_events_valid_insert">>)
  \o Guard("client_account_rosters", <<"client_account_rosters_no_update",
         "client_account_rosters_no_delete">>)
  \o Guard("client_account_roster_roles", <<"client_account_roster_roles_no_update",
         "client_account_roster_roles_no_delete">>)
  \o Guard("meeting_responsibility_events", <<"meeting_responsibility_events_no_update",
         "meeting_responsibility_events_no_delete">>)
\* 21: graphiti episode sidecar
V21 ==
  Make(<<"graphiti_episode_mappings">>)
  \o Guard("graphiti_episode_mappings", <<"graphiti_episode_mappings_valid_insert",
         "graphiti_episode_mappings_no_update", "graphiti_episode_mappings_no_delete">>)
\* 22: client portal intake
V22 ==
  Make(<<"client_intake_requests">>)
  \o Guard("client_intake_requests", <<"client_intake_requests_valid_insert">>)
\* 23: feedback learning
V23 ==
  Make(<<"feedback_patterns", "feedback_events">>)
\* 24: performance insights
V24 ==
  Make(<<"performance_insights">>)
\* 25: forecasts
V25 ==
  Make(<<"forecasts">>)
\* 26: retention and deletion
V26 ==
  Make(<<"retention_policies", "deletion_audit">>)
\* 27: brain workspace persistence
V27a ==
  Make(<<"brain_folders", "brain_collections", "brain_tags", "brain_source_tags",
      "brain_document_tags", "brain_collection_items", "brain_saved_views">>)
V27b ==
  Make(<<"brain_saved_view_versions", "brain_mutation_audit">>)
\* 28: secure provider integrations
V28 ==
  Make(<<"local_secret_vault", "provider_installations", "oauth_states", "webhook_events",
      "outbound_send_intents">>)
\* 29: asset backup recovery
V29 ==
  Make(<<"asset_registry", "backup_manifests", "recovery_plans", "asset_recovery_audit">>)
\* 30: rich review annotations
V30 ==
  Make(<<"review_annotations", "review_annotation_events">>)
  \o Guard("review_annotations", <<"review_annotations_no_update",
         "review_annotations_no_delete">>)
  \o Guard("review_annotation_events", <<"review_annotation_events_no_update",
         "review_annotation_events_no_delete", "audit_review_annotation_events_insert">>)
\* 31: proactive intelligence snapshots
V31 ==
  Make(<<"proactive_intelligence_snapshots", "proactive_intelligence_attention_items">>)
  \o Guard("proactive_intelligence_snapshots",
         <<"proactive_intelligence_snapshots_no_update",
         "proactive_intelligence_snapshots_no_delete">>)
  \o Guard("proactive_intelligence_attention_items",
         <<"proactive_intelligence_attention_no_update",
         "proactive_intelligence_attention_no_delete">>)
\* 32: work transition idempotency
V32 ==
  Make(<<"work_idempotency_keys">>)
\* 33: client operations lifecycle events
V33 ==
  Make(<<"risk_events", "opportunity_events">>)
  \o Guard("risk_events", <<"risk_events_no_update", "risk_events_no_delete">>)
  \o Guard("opportunity_events", <<"opportunity_events_no_update",
         "opportunity_events_no_delete">>)
  \o Guard("risk_events", <<"audit_risk_events_insert">>)
  \o Guard("opportunity_events", <<"audit_opportunity_events_insert">>)
\* 34: campaign creative lifecycle events
V34 ==
  Make(<<"campaign_events", "creative_review_events">>)
  \o Guard("campaign_events", <<"campaign_events_no_update", "campaign_events_no_delete">>)
  \o Guard("creative_review_events", <<"creative_review_events_no_update",
         "creative_review_events_no_delete">>)
  \o Guard("campaign_events", <<"audit_campaign_events_insert">>)
  \o Guard("creative_review_events", <<"audit_creative_review_events_insert">>)
\* 35: agency revenue operations
V35 ==
  Make(<<"sales_prospects", "sales_proposals", "sales_events">>)
  \o Guard("sales_events", <<"sales_events_no_update", "sales_events_no_delete">>)
  \o Make(<<"sales_conversions", "campaign_budget_signals", "report_pack_requests",
         "report_pack_events">>)
  \o Guard("report_pack_events", <<"report_pack_events_no_update",
         "report_pack_events_no_delete">>)
\* 36: onboarding csv imports
V36 ==
  Make(<<"onboarding_import_batches", "onboarding_import_rows",
      "onboarding_import_errors", "onboarding_import_receipts">>)
  \o Guard("onboarding_import_batches", <<"onboarding_import_batches_no_update",
         "onboarding_import_batches_no_delete">>)
  \o Guard("onboarding_import_rows", <<"onboarding_import_rows_no_update",
         "onboarding_import_rows_no_delete">>)
  \o Guard("onboarding_import_errors", <<"onboarding_import_errors_no_update",
         "onboarding_import_errors_no_delete">>)
  \o Guard("onboarding_import_receipts", <<"onboarding_import_receipts_no_update",
         "onboarding_import_receipts_no_delete">>)
\* 37: brain customization controls
V37 ==
  Make(<<"brain_customization_versions", "brain_customization_events">>)
  \o Guard("brain_customization_versions", <<"brain_customization_versions_no_update",
         "brain_customization_versions_no_delete">>)
  \o Guard("brain_customization_events", <<"brain_customization_events_no_update",
         "brain_customization_events_no_delete">>)
\* 38: read only provider imports
V38 ==
  Make(<<"provider_import_records", "provider_import_quarantines",
      "provider_import_cursors">>)
  \o Guard("provider_import_records", <<"provider_import_records_no_update",
         "provider_import_records_no_delete">>)
  \o Guard("provider_import_quarantines", <<"provider_import_quarantines_no_update",
         "provider_import_quarantines_no_delete">>)
\* 39: portal report delivery
V39 ==
  Make(<<"portal_report_versions", "portal_report_events">>)
  \o Guard("portal_report_versions", <<"portal_report_versions_no_update",
         "portal_report_versions_no_delete">>)
  \o Guard("portal_report_events", <<"portal_report_events_no_update",
         "portal_report_events_no_delete">>)
\* 40: durable scheduler operator health
V40 ==
  Make(<<"scheduler_heartbeats", "scheduler_controls">>)
\* 41: release blocker scoped scheduler and import quarantines
V41 ==
  Add("provider_import_quarantines", <<"quarantine_details">>)
  \o Rename("scheduler_heartbeats", "scheduler_heartbeats_v40")
  \o Create("scheduler_heartbeats", {})
  \o Copy("scheduler_heartbeats_v40", "scheduler_heartbeats")
  \o Drop("scheduler_heartbeats_v40")
  \o Rename("scheduler_controls", "scheduler_controls_v40") \o Create("scheduler_controls", {})
  \o Copy("scheduler_controls_v40", "scheduler_controls") \o Drop("scheduler_controls_v40")
\* 42: intelligence expert runbook foundation
V42 ==
  Make(<<"expert_profiles">>)
  \o Guard("expert_profiles", <<"expert_profiles_no_update", "expert_profiles_no_delete">>)
  \o Make(<<"intelligence_runbooks">>)
  \o Guard("intelligence_runbooks", <<"intelligence_runbooks_no_update",
         "intelligence_runbooks_no_delete">>)
\* 43: intelligence learning persistence
V43 ==
  Make(<<"intelligence_hypotheses">>)
  \o Guard("intelligence_hypotheses", <<"intelligence_hypotheses_no_update",
         "intelligence_hypotheses_no_delete", "audit_intelligence_hypotheses_insert">>)
  \o Make(<<"intelligence_recommendations">>)
  \o Guard("intelligence_recommendations", <<"intelligence_recommendations_no_update",
         "intelligence_recommendations_no_delete", "audit_intelligence_recommendations_insert">>)
  \o Make(<<"intelligence_recommendation_lifecycle">>)
  \o Guard("intelligence_recommendation_lifecycle",
         <<"intelligence_recommendation_lifecycle_no_update",
         "intelligence_recommendation_lifecycle_no_delete",
         "audit_intelligence_recommendation_lifecycle_insert">>)
  \o Make(<<"intelligence_learning_idempotency_keys">>)
\* 44: intelligence evaluation safety
V44 ==
  Make(<<"intelligence_evaluation_runs", "intelligence_evaluation_policies",
      "intelligence_evaluation_circuit_events">>)
  \o Guard("intelligence_evaluation_circuit_events",
         <<"intelligence_evaluation_circuit_no_update",
         "intelligence_evaluation_circuit_no_delete">>)
\* 45: proactive intelligence attention lifecycle
V45 ==
  Make(<<"proactive_intelligence_attention_lifecycle">>)
  \o Guard("proactive_intelligence_attention_lifecycle",
         <<"proactive_attention_lifecycle_no_delete">>)
\* 46: intelligence orchestrator runs
V46 ==
  Make(<<"intelligence_orchestrator_runs">>)
  \o Guard("intelligence_orchestrator_runs", <<"intelligence_orchestrator_runs_no_update",
         "intelligence_orchestrator_runs_no_delete">>)
\* 47: supervised reversible agent actions
V47 ==
  Add("agent_tasks", <<"action_descriptor_json", "orchestrator_trace_id">>)
\* 48: approved reversible action executions
V48 ==
  Make(<<"agent_action_executions">>)
  \o Guard("agent_action_executions", <<"agent_action_executions_no_delete">>)
\* 49: intelligence contract definition audit
V49 ==
  Guard("expert_profiles", <<"audit_expert_profiles_insert">>)
  \o Guard("intelligence_runbooks", <<"audit_intelligence_runbooks_insert">>)
\* 50: intelligence recommendation handoffs
V50 ==
  Make(<<"intelligence_recommendation_handoffs">>)
  \o Guard("intelligence_recommendation_handoffs",
         <<"intelligence_recommendation_handoffs_no_update",
         "intelligence_recommendation_handoffs_no_delete",
         "audit_intelligence_recommendation_handoffs_insert">>)
\* 51: local admin auth invites
V51 ==
  Make(<<"auth_invites">>)
\* 52: google ads provider import records
V52 ==
  Unguard(<<"provider_import_records_no_update", "provider_import_records_no_delete">>)
  \o DropIf("provider_import_records_v51")
  \o Rename("provider_import_records", "provider_import_records_v51")
  \o Create("provider_import_records", {})
  \o Copy("provider_import_records_v51", "provider_import_records")
  \o Drop("provider_import_records_v51")
  \o Guard("provider_import_records", <<"provider_import_records_no_update",
         "provider_import_records_no_delete">>)
\* 53: crm provider import records
V53 ==
  Unguard(<<"provider_import_records_no_update", "provider_import_records_no_delete">>)
  \o DropIf("provider_import_records_v52")
  \o Rename("provider_import_records", "provider_import_records_v52")
  \o Create("provider_import_records", {})
  \o Copy("provider_import_records_v52", "provider_import_records")
  \o Drop("provider_import_records_v52")
  \o Guard("provider_import_records", <<"provider_import_records_no_update",
         "provider_import_records_no_delete">>)
\* 54: durable automation actions and delegation depth
V54 ==
  Add("automation_runs", <<"workspace_id", "job_id", "change_fingerprint",
      "action_descriptor_json">>)
  \o Add("agent_tasks", <<"parent_task_id", "delegation_depth">>)
  \o Add("agent_runs", <<"delegation_depth">>) \o Make(<<"automation_action_executions">>)
  \o Guard("automation_action_executions", <<"automation_action_executions_no_delete">>)
\* 55: durable intelligence hypothesis subject timestamps
V55 ==
  Add("intelligence_hypotheses", <<"subject", "updated_at", "resolved_at">>)
\* 56: workflow principal rosters and meeting output routes
V56 ==
  Add("client_account_roster_roles", <<"principal_type", "agent_id">>)
  \o Add("agents", <<"wing_ids">>)
  \o Add("workflow_stage_runs", <<"assignee_principal_type", "assignee_principal_id",
         "handoff_principal_type", "handoff_principal_id">>)
  \o Add("workflow_handoff_acknowledgements", <<"from_principal_type", "from_principal_id",
         "to_principal_type", "to_principal_id">>)
  \o Make(<<"meeting_output_routes">>)
  \o Guard("meeting_output_routes", <<"meeting_output_routes_no_update",
         "meeting_output_routes_no_delete">>)
  \o Unguard(<<"client_account_roster_roles_valid_insert">>)
  \o Guard("client_account_roster_roles", <<"client_account_roster_roles_valid_insert">>)
\* 57: phase14 outbound asset review contracts
V57 ==
  Make(<<"outbound_send_attempts">>)
  \o Guard("outbound_send_attempts", <<"outbound_send_attempts_no_update",
         "outbound_send_attempts_no_delete">>)
  \o Make(<<"asset_backup_manifests">>)
  \o Guard("asset_backup_manifests", <<"asset_backup_manifests_no_update",
         "asset_backup_manifests_no_delete">>)
  \o Make(<<"review_media_contracts">>)
  \o Guard("review_media_contracts", <<"review_media_contracts_no_update",
         "review_media_contracts_no_delete">>)
  \o Add("review_annotations", <<"metadata_json">>)
\* 58: phase14 webhook quarantine contracts
V58 ==
  Make(<<"webhook_quarantines">>)
  \o Guard("webhook_quarantines", <<"webhook_quarantines_no_update",
         "webhook_quarantines_no_delete">>)
\* 59: source physical delete preserves metadata history
V59a ==
  Unguard(<<"source_lifecycle_identity_no_update", "source_lifecycle_no_delete",
      "source_lifecycle_close_once", "source_lifecycle_effective_close_once",
      "provider_route_events_no_update", "provider_route_events_no_delete",
      "provider_route_mutation_source_id_no_update",
      "provider_route_mutation_state_no_rewrite", "graphiti_episode_mappings_no_update",
      "graphiti_episode_mappings_no_delete">>)
  \o DropIf("source_lifecycle_intervals_v59") \o Create("source_lifecycle_intervals_v59", {})
  \o Copy("source_lifecycle_intervals", "source_lifecycle_intervals_v59")
  \o Drop("source_lifecycle_intervals")
  \o Rename("source_lifecycle_intervals_v59", "source_lifecycle_intervals")
  \o DropIf("provider_object_route_events_v59") \o Create("provider_object_route_events_v59", {})
  \o Copy("provider_object_route_events", "provider_object_route_events_v59")
  \o Drop("provider_object_route_events")
  \o Rename("provider_object_route_events_v59", "provider_object_route_events")
  \o DropIf("provider_route_mutation_staging_v59")
  \o Create("provider_route_mutation_staging_v59", {"event_dedupe_key"})
  \o Copy("provider_route_mutation_staging", "provider_route_mutation_staging_v59")
  \o Drop("provider_route_mutation_staging")
  \o Rename("provider_route_mutation_staging_v59", "provider_route_mutation_staging")
  \o DropIf("graphiti_episode_mappings_v59") \o Create("graphiti_episode_mappings_v59", {})
  \o Copy("graphiti_episode_mappings", "graphiti_episode_mappings_v59")
  \o Drop("graphiti_episode_mappings")
  \o Rename("graphiti_episode_mappings_v59", "graphiti_episode_mappings")
V59b ==
  Guard("graphiti_episode_mappings", <<"graphiti_episode_mappings_valid_insert">>)
  \o Guard("source_lifecycle_intervals", <<"source_lifecycle_identity_no_update",
         "source_lifecycle_no_delete", "source_lifecycle_close_once",
         "source_lifecycle_effective_close_once">>)
  \o Guard("provider_object_route_events", <<"provider_route_events_no_update",
         "provider_route_events_no_delete">>)
  \o Guard("provider_route_mutation_staging",
         <<"provider_route_mutation_source_id_no_update",
         "provider_route_mutation_state_no_rewrite">>)
  \o Guard("graphiti_episode_mappings", <<"graphiti_episode_mappings_no_update",
         "graphiti_episode_mappings_no_delete">>)
\* 60: understanding pipeline
V60 ==
  Make(<<"understanding_sources", "understanding_proposals",
      "understanding_proposal_events">>)
  \o Guard("understanding_proposal_events", <<"understanding_proposal_events_no_update",
         "understanding_proposal_events_no_delete">>)
\* 61: agent execution thinking
V61 ==
  Make(<<"agent_thinking_results", "agent_thinking_attempts", "agent_executor_actions">>)
\* 62: automated outcome attribution
V62 ==
  Make(<<"outcome_attribution_plans", "outcome_attribution_snapshots">>)
  \o Guard("outcome_attribution_snapshots", <<"outcome_attribution_snapshots_no_update",
         "outcome_attribution_snapshots_no_delete">>)
\* 63: analytics provider import records
V63 ==
  Unguard(<<"provider_import_records_no_update", "provider_import_records_no_delete">>)
  \o DropIf("provider_import_records_v53")
  \o Rename("provider_import_records", "provider_import_records_v53")
  \o Create("provider_import_records", {})
  \o Copy("provider_import_records_v53", "provider_import_records")
  \o Drop("provider_import_records_v53")
  \o Guard("provider_import_records", <<"provider_import_records_no_update",
         "provider_import_records_no_delete">>)
\* 64: agency asset layer
V64 ==
  Make(<<"agency_assets", "agency_asset_versions", "asset_review_threads">>)
\* 65: agency asset version guard
V65 ==
  Guard("agency_asset_versions", <<"agency_asset_version_no_update",
      "agency_asset_version_no_delete">>)
\* 66: agent thinking trace citations
V66 ==
  Add("agent_thinking_results", <<"trace_json", "citations_json">>)
  \o Add("agent_thinking_attempts", <<"trace_json", "citations_json">>)
\* 67: pilot operator verdicts
V67 ==
  Make(<<"pilot_operator_verdicts">>)
  \o Guard("pilot_operator_verdicts", <<"pilot_operator_verdicts_no_update",
         "pilot_operator_verdicts_no_delete">>)
\* 68: onboarding receipt simulation marker
V68 ==
  Add("onboarding_import_receipts", <<"simulated">>)
\* 69: runbook approvals and success definitions
V69 ==
  Make(<<"intelligence_runbook_approvals", "intelligence_success_definitions">>)
V1 == V1a \o V1b
V10 == V10a \o V10b
V11 == V11a \o V11b
V12 == V12a \o V12b
V13 == V13a \o V13b
V27 == V27a \o V27b
V59 == V59a \o V59b

\* MIGRATIONS, by version (1 is SCHEMA)
MIGRATIONS ==
  <<V1, V2, V3, V4, V5, V6, V7, V8, V9, V10, V11, V12, V13, V14, V15, V16, V17, V18,
    V19, V20, V21, V22, V23, V24, V25, V26, V27, V28, V29, V30, V31, V32, V33, V34,
    V35, V36, V37, V38, V39, V40, V41, V42, V43, V44, V45, V46, V47, V48, V49, V50,
    V51, V52, V53, V54, V55, V56, V57, V58, V59, V60, V61, V62, V63, V64, V65, V66,
    V67, V68, V69>>

\* What migrate() runs after the last version: it numbers the events of a
\* store of version 18 that was created before events were numbered (the
\* update trigger is dropped for it), then makes what such a store lacks.
Renumber == Unguard(<<"knowledge_state_no_update">>) \o <<Statement("number", "", "", {})>>
Complete18 ==
  Make(<<"entity_alias_state_events">>)
  \o Guard("entity_aliases", <<"entity_aliases_no_update_lifecycle">>)
  \o Guard("entity_alias_state_events", <<"entity_alias_state_no_update",
         "entity_alias_state_no_delete">>)
  \o Guard("knowledge_state_events", <<"knowledge_state_no_update",
         "knowledge_state_monotonic_insert">>)
============================================================================
